---- MODULE Spec2Model ----
(***************************************************************************)
(* The LinkedIn job search tool of CareerAgent                             *)
(* (backend/tools/job_search_agent.py, google_cse_linkedin_search.py,      *)
(* schema.py): input validation, query construction, pagination of the     *)
(* search provider, per-item parsing with the model-based and the          *)
(* deterministic strategy, and assembly of the result.                     *)
(*                                                                         *)
(* A string is a sequence of tokens; the token " " is a blank, "\n" a      *)
(* line break, "\"" a double quote, any other token a run of other         *)
(* characters.                                                             *)
(***************************************************************************)
EXTENDS Integers, Sequences, FiniteSets, TLC

VARIABLES
    pc,              \* "idle" | "rejected" | "searching" | "done"
    args,            \* the tool's arguments as the caller supplied them
    env,             \* what the constructor and the model provider will do
    provider,        \* the ranked result list the search provider holds
    llm_available,   \* GoogleCSELinkedInSearcher.llm_available
    chain_ready,     \* whether self.extraction_chain was assigned
    input,           \* the arguments after LinkedInJobSearchInput validation
    path,            \* "none" | "basic" | "filters"
    parsing_method,  \* the local parsing_method of the running search
    query,           \* the query string of the running search
    date_restrict,   \* the dateRestrict parameter of the running search
    all_jobs,        \* records accumulated so far
    start_index,     \* next value of the 'start' parameter
    calls,           \* provider calls issued, in order
    parse_log,       \* parser invocations, in order
    result,          \* what the tool returned
    op,              \* the operation of the backend that is running
    cv_pc,           \* "off" | "idle" | "parsed" | "planned" | "done" | "raised"
    cv_args,         \* the arguments of the CV operation
    cv_env,          \* credentials, files and what the providers will do
    cv_analysis,     \* the result of the CV parser (cv_result in the code)
    search_params,   \* the search parameters derived from the CV
    net,             \* network calls attempted, in order
    cv_result,       \* what the CV operation returned
    x_pc,            \* "off" | "idle" | "done"
    x_item,          \* the search result item being parsed
    x_job,           \* the record the parser returned for it
    srv_pc,          \* "off" | "idle" | "chat_restored"
    models_config,   \* config._models_config, as loaded from models.json
    MODEL_NAME,      \* config.MODEL_NAME
    agents_cache,    \* fastapi_server.agents_cache
    uploaded_files,  \* fastapi_server.uploaded_files (the file ids)
    srv_env,         \* whether the model provider accepts the credentials
    request,         \* the request being served, or the last one served
    response,        \* the response to the last request that was answered
    last_update      \* the response to the last POST /api/model

toolVars == <<pc, args, env, provider, llm_available, chain_ready, input, path,
              parsing_method, query, date_restrict, all_jobs, start_index, calls,
              parse_log, result>>

cvVars == <<op, cv_pc, cv_args, cv_env, cv_analysis, search_params, net, cv_result>>

xVars == <<x_pc, x_item, x_job>>

srvVars == <<srv_pc, models_config, MODEL_NAME, agents_cache, uploaded_files,
             srv_env, request, response, last_update>>

vars == <<toolVars, cvVars, xVars, srvVars>>

-----------------------------------------------------------------------------
(* Bounds of the exploration *)

\* Largest size of the provider's ranked result list that is explored.
MaxIndexSize == 100
\* Modulus of the sparse result list: one listing-domain item per SparseStep ranks.
SparseStep == 10

(* Program constants *)

NumResultsMin == 1
NumResultsMax == 50
PageSize == 10
ProviderCeiling == 100
LastStartIndex == 91
StartStep == 10

-----------------------------------------------------------------------------
(* Strings *)

Blank == " "
Newline == "\n"
Quote == "\""
Empty == << >>

\* \s: the characters str.strip() removes and \s matches
IsSpace(t) == t \in {Blank, Newline}

Str(w) == <<w>>

\* str.strip()
RECURSIVE LStrip(_)
LStrip(s) == IF s # Empty /\ IsSpace(Head(s)) THEN LStrip(Tail(s)) ELSE s

RECURSIVE RStrip(_)
RStrip(s) ==
    IF s # Empty /\ IsSpace(s[Len(s)]) THEN RStrip(SubSeq(s, 1, Len(s) - 1)) ELSE s

Strip(s) == RStrip(LStrip(s))

\* truth value of a str
Truthy(s) == s # Empty

\* ' '.join(parts)
RECURSIVE JoinSpace(_)
JoinSpace(parts) ==
    IF parts = << >> THEN Empty
    ELSE IF Len(parts) = 1 THEN parts[1]
    ELSE parts[1] \o <<Blank>> \o JoinSpace(Tail(parts))

\* f'"{s}"'
Quoted(s) == <<Quote>> \o s \o <<Quote>>

SitePrefix == <<"site:linkedin.com/jobs", Blank>>

Min(a, b) == IF a < b THEN a ELSE b

-----------------------------------------------------------------------------
(* Input validation: LinkedInJobSearchInput *)

Rejected == [rejected |-> TRUE]

ValidRanges == {Str("d1"), Str("w1"), Str("m1"), Str("m2"), Str("m3"), Str("m6"), Str("y1")}

\* @validator('date_range')
validate_date_range(v) ==
    IF Truthy(v) /\ v \notin ValidRanges THEN Str("m1") ELSE v

\* the same validator of backend/schema.py
validate_date_range_backend(v) ==
    IF Truthy(v) /\ v \notin ValidRanges THEN Str("m1") ELSE v

\* @validator('parsing_method')
validate_parsing_method(v) ==
    IF v \notin {"llm", "manual"} THEN "llm" ELSE v

\* @validator('*', pre=True): an empty optional field stays the empty string
empty_str_to_default(v) == IF v = Empty THEN Empty ELSE v

\* mutant: the upper limit of num_results is not enforced
NumResultsAcceptedNoMax(n) == n >= NumResultsMin

\* num_results: Field(ge=1, le=50): a value outside the range is a validation error
NumResultsAccepted(n) == n >= NumResultsMin /\ n <= NumResultsMax

LinkedInJobSearchInput(a) ==
    IF ~NumResultsAccepted(a.num_results) THEN Rejected
    ELSE [rejected            |-> FALSE,
          keyword             |-> a.keyword,
          location            |-> empty_str_to_default(a.location),
          job_type            |-> empty_str_to_default(a.job_type),
          experience_level    |-> empty_str_to_default(a.experience_level),
          company             |-> empty_str_to_default(a.company),
          industry            |-> empty_str_to_default(a.industry),
          date_range          |-> validate_date_range(empty_str_to_default(a.date_range)),
          num_results         |-> a.num_results,
          parsing_method      |-> validate_parsing_method(a.parsing_method),
          salary_range        |-> empty_str_to_default(a.salary_range),
          work_arrangement    |-> empty_str_to_default(a.work_arrangement),
          job_function        |-> empty_str_to_default(a.job_function),
          include_similar     |-> a.include_similar,
          exact_match_company |-> a.exact_match_company]

-----------------------------------------------------------------------------
(* Query construction *)

\* query_parts.append(x.strip()) when x.strip() is non-empty
StripTerm(x) == IF Truthy(Strip(x)) THEN <<Strip(x)>> ELSE << >>

\* query_parts.append(x) when x is non-empty
RawTerm(x) == IF Truthy(x) THEN <<x>> ELSE << >>

\* query_parts.append(f'"{x}"') when x is non-empty
QuotedTerm(x) == IF Truthy(x) THEN <<Quoted(x)>> ELSE << >>

\* the tool's query_parts, joined into the keyword it hands to the searcher
ToolKeyword(i) ==
    JoinSpace(<<i.keyword>>
              \o StripTerm(i.location)
              \o StripTerm(i.job_type)
              \o StripTerm(i.experience_level)
              \o StripTerm(i.work_arrangement)
              \o StripTerm(i.job_function)
              \o StripTerm(i.industry)
              \o (IF Truthy(Strip(i.salary_range)) THEN <<Str("salary")>> ELSE << >>))

\* the query of GoogleCSELinkedInSearcher.search_linkedin_jobs
BasicQuery(keyword, location, job_type, experience_level) ==
    SitePrefix \o JoinSpace(<<keyword>>
                            \o RawTerm(location)
                            \o RawTerm(job_type)
                            \o RawTerm(experience_level))

\* the query of GoogleCSELinkedInSearcher.search_with_filters
FiltersQuery(keyword, company, location, job_level) ==
    SitePrefix \o JoinSpace(<<keyword>>
                            \o QuotedTerm(company)
                            \o QuotedTerm(location)
                            \o QuotedTerm(job_level))

\* the company argument the tool passes to search_with_filters
CompanyArg(i) == IF i.exact_match_company THEN i.company ELSE Empty

UsesFilters(i) == Truthy(Strip(i.company))

\* mutant: both paths send the caller's date_range
DateRestrictOfCaller(i) == i.date_range

\* 'dateRestrict' of the provider calls: date_range on the search_with_filters
\* path, the literal 'm1' on the search_linkedin_jobs path
DateRestrict(i) == IF UsesFilters(i) THEN i.date_range ELSE Str("m1")

ToolQuery(i) ==
    IF UsesFilters(i)
    THEN FiltersQuery(ToolKeyword(i), CompanyArg(i), i.location, i.experience_level)
    ELSE BasicQuery(ToolKeyword(i), i.location, i.job_type, i.experience_level)

-----------------------------------------------------------------------------
(* The searcher's constructor *)

\* self.llm_available after __init__: the value _setup_llm_extraction_chain sets on
\* its own failure is overwritten by the assignment that follows the call
LlmAvailableAfterInit(e) == e.groq_ok

\* whether self.extraction_chain exists after __init__
ChainReadyAfterInit(e) == e.groq_ok /\ e.chain_ok

\* mutant: the requested strategy is kept when the model is unavailable
EffectiveMethodNoDowngrade(requested, available) == requested

\* "if parsing_method == 'llm' and not self.llm_available: parsing_method = 'manual'"
EffectiveMethod(requested, available) ==
    IF requested = "llm" /\ ~available THEN "manual" ELSE requested

-----------------------------------------------------------------------------
(* The search provider *)

Listing(pattern, r) ==
    CASE pattern = "all"    -> TRUE
      [] pattern = "none"   -> FALSE
      [] pattern = "sparse" -> r % SparseStep = 1
      [] pattern = "mixed"  -> r % 3 # 0

\* the items a call with parameters start and num returns: the ranks start.. of the
\* result list, one page of them; a provider that ignores num returns a full page
ProviderItems(p, start, num) ==
    LET page == IF p.honours_num THEN num ELSE PageSize
        last == Min(start + page - 1, p.total)
    IN  [k \in 1..(IF last >= start THEN last - start + 1 ELSE 0) |->
            [rank |-> start + k - 1, listing |-> Listing(p.pattern, start + k - 1)]]

-----------------------------------------------------------------------------
(* Parsing a batch *)

NoJob == [rank |-> 0, via |-> "none"]

\* _extract_job_info: the deterministic parser; its regular expressions do not
\* raise on the strings of an item
ExtractJobInfo(item) == [rank |-> item.rank, via |-> "manual"]

\* self.extraction_chain.invoke raises: the chain is missing, or the model fails
ModelRaises(e, ready, item) ==
    \/ ~ready
    \/ e.model_fails = "all"
    \/ e.model_fails = "odd" /\ item.rank % 2 = 1

\* mutant: an item whose model extraction raises is dropped
ParseItemLlmNoFallback(e, ready, item) ==
    IF ~item.listing THEN [jobs |-> << >>, log |-> << >>]
    ELSE IF ~ModelRaises(e, ready, item)
    THEN [jobs |-> <<[rank |-> item.rank, via |-> "llm"]>>,
          log  |-> <<[parser |-> "llm", rank |-> item.rank, raised |-> FALSE]>>]
    ELSE [jobs |-> << >>,
          log  |-> <<[parser |-> "llm", rank |-> item.rank, raised |-> TRUE]>>]

\* one iteration of the loop of _parse_search_results_llm
ParseItemLlm(e, ready, item) ==
    IF ~item.listing THEN [jobs |-> << >>, log |-> << >>]
    ELSE IF ~ModelRaises(e, ready, item)
    THEN [jobs |-> <<[rank |-> item.rank, via |-> "llm"]>>,
          log  |-> <<[parser |-> "llm", rank |-> item.rank, raised |-> FALSE]>>]
    ELSE LET manual_job == ExtractJobInfo(item)
         IN  [jobs |-> IF manual_job # NoJob THEN <<manual_job>> ELSE << >>,
              log  |-> <<[parser |-> "llm", rank |-> item.rank, raised |-> TRUE],
                         [parser |-> "manual", rank |-> item.rank, raised |-> FALSE]>>]

\* mutant: the deterministic parser does not test the link of an item
ParseItemManualAnyLink(item) ==
    LET job_info == ExtractJobInfo(item)
    IN  [jobs |-> IF job_info # NoJob THEN <<job_info>> ELSE << >>,
         log  |-> <<[parser |-> "manual", rank |-> item.rank, raised |-> FALSE]>>]

\* one iteration of the loop of _parse_search_results
ParseItemManual(item) ==
    IF ~item.listing THEN [jobs |-> << >>, log |-> << >>]
    ELSE LET job_info == ExtractJobInfo(item)
         IN  [jobs |-> IF job_info # NoJob THEN <<job_info>> ELSE << >>,
              log  |-> <<[parser |-> "manual", rank |-> item.rank, raised |-> FALSE]>>]

RECURSIVE ParseSearchResultsLlm(_, _, _)
ParseSearchResultsLlm(e, ready, items) ==
    IF items = << >> THEN [jobs |-> << >>, log |-> << >>]
    ELSE LET h == ParseItemLlm(e, ready, Head(items))
             t == ParseSearchResultsLlm(e, ready, Tail(items))
         IN  [jobs |-> h.jobs \o t.jobs, log |-> h.log \o t.log]

RECURSIVE ParseSearchResults(_)
ParseSearchResults(items) ==
    IF items = << >> THEN [jobs |-> << >>, log |-> << >>]
    ELSE LET h == ParseItemManual(Head(items))
             t == ParseSearchResults(Tail(items))
         IN  [jobs |-> h.jobs \o t.jobs, log |-> h.log \o t.log]

\* "if parsing_method == 'llm': ... else: ..."
ParseBatch(method, e, ready, items) ==
    IF method = "llm" THEN ParseSearchResultsLlm(e, ready, items)
    ELSE ParseSearchResults(items)

-----------------------------------------------------------------------------
(* Results *)

NoFilters == [present |-> FALSE]

NoResult ==
    [returned |-> FALSE, success |-> FALSE, error |-> Empty, jobs |-> << >>,
     total_found |-> -1, query |-> Empty, parsing_method |-> "none",
     applied_filters |-> NoFilters]

\* the failure dictionaries: {"success": False, "error": ..., "jobs": []}
Failure(msg) ==
    [returned |-> TRUE, success |-> FALSE, error |-> msg, jobs |-> << >>,
     total_found |-> -1, query |-> Empty, parsing_method |-> "none",
     applied_filters |-> NoFilters]

\* mutant: the accumulated list is returned untrimmed
TruncateNothing(jobs, n) == jobs

\* all_jobs[:num_results]
Truncate(jobs, n) == SubSeq(jobs, 1, Min(n, Len(jobs)))

\* the success dictionary of search_linkedin_jobs
BasicSuccess(q, jobs, n, method) ==
    LET final_jobs == Truncate(jobs, n)
    IN  [returned |-> TRUE, success |-> TRUE, error |-> Empty, jobs |-> final_jobs,
         total_found |-> Len(final_jobs), query |-> q, parsing_method |-> method,
         applied_filters |-> NoFilters]

\* the success dictionary of search_with_filters
FiltersSuccess(q, jobs, method) ==
    [returned |-> TRUE, success |-> TRUE, error |-> Empty, jobs |-> jobs,
     total_found |-> Len(jobs), query |-> q, parsing_method |-> method,
     applied_filters |-> NoFilters]

\* "x if x.strip() else 'all ...'"
OrPlaceholder(x, dimension) ==
    IF Truthy(Strip(x)) THEN x ELSE <<"all", Blank, dimension>>

\* result["applied_filters"] of the tool
AppliedFilters(i) ==
    [present          |-> TRUE,
     keyword          |-> i.keyword,
     location         |-> OrPlaceholder(i.location, "locations"),
     job_type         |-> OrPlaceholder(i.job_type, "types"),
     experience_level |-> OrPlaceholder(i.experience_level, "levels"),
     company          |-> OrPlaceholder(i.company, "companies"),
     industry         |-> OrPlaceholder(i.industry, "industries"),
     date_range       |-> i.date_range,
     work_arrangement |-> OrPlaceholder(i.work_arrangement, "arrangements"),
     job_function     |-> OrPlaceholder(i.job_function, "functions"),
     salary_filter    |-> IF Truthy(Strip(i.salary_range)) THEN Str("applied")
                          ELSE <<"not", Blank, "applied">>,
     exact_company_match  |-> i.exact_match_company,
     include_similar_jobs |-> i.include_similar]

\* what the tool returns for the searcher's result: a successful one gets the filters
ToolReturn(res, i) ==
    IF res.success THEN [res EXCEPT !.applied_filters = AppliedFilters(i)] ELSE res

-----------------------------------------------------------------------------
(* The pagination loop of search_linkedin_jobs *)

\* mutant: the loop runs once more when num_results records are already held
LoopContinuesInclusive(jobs, n, start) == Len(jobs) <= n /\ start <= LastStartIndex

\* mutant: the loop gives up one page before the provider's last page
LoopContinuesShort(jobs, n, start) ==
    Len(jobs) < n /\ start <= LastStartIndex - StartStep

\* "while len(all_jobs) < num_results and start_index <= 91"
LoopContinues(jobs, n, start) == Len(jobs) < n /\ start <= LastStartIndex

\* mutant: a batch without records does not end the loop
EndsPaginationNever(batch_jobs) == FALSE

\* "if not batch_jobs: break"
EndsPagination(batch_jobs) == batch_jobs = << >>

\* mutant: the batch size is not capped at the page size
BatchSizeUncapped(n, jobs) == n - Len(jobs)

\* "batch_size = min(10, num_results - len(all_jobs))"
BatchSize(n, jobs) == Min(PageSize, n - Len(jobs))

\* "start_index += 10"
NextStart(start) == start + StartStep

\* mutant: search_with_filters asks for num_results items
FiltersNumUncapped(n) == n

\* "'num': min(num_results, 10)" of search_with_filters
FiltersNum(n) == Min(n, PageSize)

\* the number of listing-domain items among items
RECURSIVE CountListing(_)
CountListing(items) ==
    IF items = << >> THEN 0
    ELSE (IF Head(items).listing THEN 1 ELSE 0) + CountListing(Tail(items))

\* a provider call as the search saw it: its parameters, the number of records held
\* when it was issued, and the items and listing-domain items it returned
Call(q, num, start, restrict, have, items) ==
    [q |-> q, num |-> num, start |-> start, dateRestrict |-> restrict, have |-> have,
     failed |-> FALSE, got |-> Len(items), listing |-> CountListing(items)]

\* a provider call that raised
FailedCall(q, num, start, restrict, have) ==
    [q |-> q, num |-> num, start |-> start, dateRestrict |-> restrict, have |-> have,
     failed |-> TRUE, got |-> 0, listing |-> 0]

\* mutant: the except clause returns the jobs accumulated so far
ExceptRequestPartial(jobs) ==
    [Failure(<<"API", Blank, "request", Blank, "failed">>) EXCEPT !.jobs = jobs]

\* "except requests.exceptions.RequestException": the accumulated jobs are not returned
ExceptRequest(jobs) == Failure(<<"API", Blank, "request", Blank, "failed">>)

\* "except Exception" of search_with_filters
ExceptFilters(jobs) == Failure(<<"request", Blank, "failed">>)

-----------------------------------------------------------------------------
(* Inputs *)

Keyword == Str("python")

DefaultArgs ==
    [keyword |-> Keyword, location |-> Empty, job_type |-> Empty,
     experience_level |-> Empty, company |-> Empty, industry |-> Empty,
     date_range |-> Str("m1"), num_results |-> 10, parsing_method |-> "llm",
     salary_range |-> Empty, work_arrangement |-> Empty, job_function |-> Empty,
     include_similar |-> TRUE, exact_match_company |-> FALSE]

NumResultsInputs == (NumResultsMin - 1)..(NumResultsMax + 1)

\* the requests of the pagination specification: every num_results, both strategies,
\* with and without a company filter
PagingArgs ==
    { [DefaultArgs EXCEPT !.num_results = n, !.parsing_method = m, !.company = c] :
        n \in NumResultsInputs, m \in {"llm", "manual"}, c \in {Empty, Str("Acme")} }

HealthyEnv ==
    [api_key |-> TRUE, cse_id |-> TRUE, groq_ok |-> TRUE, chain_ok |-> TRUE,
     model_fails |-> "none"]

Envs ==
    { HealthyEnv,
      [HealthyEnv EXCEPT !.model_fails = "all"],
      [HealthyEnv EXCEPT !.model_fails = "odd"],
      [HealthyEnv EXCEPT !.chain_ok = FALSE],
      [HealthyEnv EXCEPT !.groq_ok = FALSE],
      [HealthyEnv EXCEPT !.api_key = FALSE],
      [HealthyEnv EXCEPT !.cse_id = FALSE] }

IndexSizes == {0, 7, 25, MaxIndexSize}

Providers ==
    { [total |-> t, pattern |-> p, honours_num |-> h] :
        t \in IndexSizes, p \in {"all", "none", "sparse", "mixed"}, h \in BOOLEAN }

-----------------------------------------------------------------------------
(* The CV operations of backend/: CVParser, parse_cv_content and
   search_jobs_from_cv. A dictionary is a function whose domain is its keys. *)

\* dict.get(k, default)
Get(d, k, default) == IF k \in DOMAIN d THEN d[k] ELSE default

EmptyDict == << >>

\* the "None" string a model is told to give for missing information
SentinelNone == Str("None")

\* str.lower(), on the tokens of the inputs
Lower(s) ==
    [k \in 1..Len(s) |-> CASE s[k] = "PDF" -> "pdf"
                            [] s[k] = "Remote" -> "remote"
                            [] OTHER -> s[k]]

DigitChars == <<"0", "1", "2", "3", "4", "5", "6", "7", "8", "9">>

\* str.isdigit of a character
IsDigit(c) == \E d \in 1..Len(DigitChars) : DigitChars[d] = c

\* int(s) of a string of digits
RECURSIVE IntOfDigits(_)
IntOfDigits(s) ==
    IF s = Empty THEN 0
    ELSE 10 * IntOfDigits(SubSeq(s, 1, Len(s) - 1))
         + (CHOOSE d \in 1..Len(DigitChars) : DigitChars[d] = s[Len(s)]) - 1

\* ''.join(filter(str.isdigit, total_exp))
DigitsOf(s) == SelectSeq(s, IsDigit)

NoData == [present |-> FALSE]

ParserResult(ok, msg, data, calls_made) ==
    [success |-> ok, error |-> msg, data |-> data, net |-> calls_made]

\* CVParser() followed by CVParser.parse_resume_from_text: llm_available is what
\* ChatGroq's construction left; a chain that was never assigned raises on use
ParseResumeFromText(e) ==
    IF ~e.groq_ok
    THEN ParserResult(FALSE, "LLM not available for resume parsing", NoData, << >>)
    ELSE IF ~e.chain_ok
    THEN ParserResult(FALSE, "Error parsing resume", NoData, << >>)
    ELSE IF e.resume_model = "raises"
    THEN ParserResult(FALSE, "Error parsing resume", NoData, <<"model">>)
    ELSE ParserResult(TRUE, "", e.resume, <<"model">>)

\* CVParser.parse_resume_from_pdf
ParseResumeFromPdf(e) ==
    CASE e.pdf_text = "raises" -> ParserResult(FALSE, "Error processing PDF", NoData, << >>)
      [] e.pdf_text = "empty"  ->
            ParserResult(FALSE, "Could not extract text from PDF or PDF is empty",
                         NoData, << >>)
      [] OTHER -> ParseResumeFromText(e)

\* the first step of parse_cv_content and of search_jobs_from_cv: [early |-> TRUE]
\* when the operation returns before the parser is called
ParseCv(content, content_type, e) ==
    IF Lower(content_type) = Str("pdf")
    THEN IF ~e.file_exists
         THEN [early |-> TRUE, res |-> ParserResult(FALSE, "PDF file not found", NoData, << >>)]
         ELSE [early |-> FALSE, res |-> ParseResumeFromPdf(e)]
    ELSE IF Lower(content_type) = Str("text")
    THEN IF ~Truthy(content) \/ Strip(content) = Empty
         THEN [early |-> TRUE,
               res |-> ParserResult(FALSE, "CV text content is empty", NoData, << >>)]
         ELSE [early |-> FALSE, res |-> ParseResumeFromText(e)]
    ELSE [early |-> TRUE, res |-> ParserResult(FALSE, "Invalid content type", NoData, << >>)]

DefaultKeyword == <<"software", Blank, "engineer">>

\* the experience level _extract_basic_search_params derives
BasicExperienceLevel(total_exp, include_entry_level) ==
    IF total_exp # SentinelNone /\ Truthy(total_exp)
    THEN IF DigitsOf(total_exp) = Empty
         THEN Empty                      \* int('') raises: the bare except
         ELSE LET years == IntOfDigits(DigitsOf(total_exp))
              IN  IF include_entry_level \/ years <= 2 THEN Str("entry")
                  ELSE IF years <= 5 THEN Str("mid")
                  ELSE IF years <= 10 THEN Str("senior")
                  ELSE Str("lead")
    ELSE Empty

\* the keyword _extract_basic_search_params derives
BasicKeyword(cv) ==
    LET title == Get(cv, "professional_title", Empty)
        experiences == Get(cv, "experiences", << >>)
        skills == Get(cv, "technical_skills", << >>)
        job_title == IF experiences # << >> THEN Get(experiences[1], "job_title", Empty)
                     ELSE Empty
        keyword == IF Truthy(title) /\ title # SentinelNone THEN title
                   ELSE IF Truthy(job_title) /\ job_title # SentinelNone THEN job_title
                   ELSE Empty
    IN  IF Truthy(keyword) THEN keyword
        ELSE IF skills # << >> THEN Get(skills[1], "name", DefaultKeyword)
        ELSE DefaultKeyword

\* the location _extract_basic_search_params derives
BasicLocation(cv, user_location) ==
    LET contact == Get(cv, "contact_info", EmptyDict)
        city == Get(contact, "city", Empty)
        state == Get(contact, "state", Empty)
    IN  IF Truthy(user_location) THEN user_location
        ELSE IF city # SentinelNone
        THEN IF Truthy(city) /\ Truthy(state) THEN city \o <<",", Blank>> \o state
             ELSE IF Truthy(city) THEN city
             ELSE Empty
        ELSE Empty

\* _extract_basic_search_params
ExtractBasicSearchParams(cv, a) ==
    LET preferred == Get(cv, "preferred_work_type", Empty)
    IN  [keyword          |-> BasicKeyword(cv),
         location         |-> BasicLocation(cv, a.location),
         job_type         |-> a.job_type,
         work_arrangement |->
             IF Truthy(a.work_arrangement) THEN a.work_arrangement
             ELSE IF Truthy(preferred) /\ preferred # SentinelNone THEN Lower(preferred)
             ELSE Empty,
         experience_level |->
             BasicExperienceLevel(Get(cv, "total_years_experience", SentinelNone),
                                  a.include_entry_level)]

\* _convert_strategy_to_params
ConvertStrategyToParams(strategy, a) ==
    LET primary == Get(strategy, "primary_search", EmptyDict)
    IN  [keyword          |-> Get(primary, "keyword", DefaultKeyword),
         location         |-> IF Truthy(a.location) THEN a.location
                              ELSE Get(primary, "location", Empty),
         job_type         |-> a.job_type,
         experience_level |-> Get(primary, "experience_level", Empty),
         work_arrangement |-> a.work_arrangement,
         industry         |-> Get(primary, "industry", Empty)]

\* _generate_search_parameters: always a success; the parameters and the calls made
GenerateSearchParameters(cv, a, e) ==
    IF ~e.groq_ok
    THEN [parameters |-> ExtractBasicSearchParams(cv, a), strategy |-> "fallback",
          net |-> << >>]
    ELSE IF e.strategy_model = "raises"
    THEN [parameters |-> ExtractBasicSearchParams(cv, a), strategy |-> "fallback",
          net |-> <<"model">>]
    ELSE IF e.strategy_model = "json"
    THEN [parameters |-> ConvertStrategyToParams(e.strategy, a), strategy |-> "json",
          net |-> <<"model">>]
    ELSE \* json.loads raises: the strategy is the dictionary of basic parameters
         [parameters |-> ConvertStrategyToParams(ExtractBasicSearchParams(cv, a), a),
          strategy |-> "basic", net |-> <<"model">>]

SearchResult(ok, msg, jobs, calls_made) ==
    [success |-> ok, error |-> msg, jobs |-> jobs, net |-> calls_made]

\* GoogleCSELinkedInSearcher.search_jobs of backend/: it returns a success
\* dictionary or a failure dictionary, or raises
SearchJobs(e, num_results) ==
    CASE e.search = "ok" ->
            [raised |-> FALSE,
             res |-> SearchResult(TRUE, "", [k \in 1..Min(num_results, e.found) |-> k],
                                  <<"provider">>)]
      [] e.search = "fails" ->
            [raised |-> FALSE,
             res |-> SearchResult(FALSE, "API request failed", << >>, <<"provider">>)]
      [] OTHER ->
            [raised |-> TRUE,
             res |-> SearchResult(FALSE, "raised", << >>, <<"provider">>)]

MissingCredentialsMessage == "Missing Google API credentials"

\* _search_jobs_with_params
SearchJobsWithParams(e, num_results) ==
    IF ~(e.api_key /\ e.cse_id)
    THEN SearchResult(FALSE, MissingCredentialsMessage, << >>, << >>)
    ELSE IF SearchJobs(e, num_results).raised
    THEN SearchResult(FALSE, "Error searching jobs", << >>, <<"provider">>)
    ELSE SearchJobs(e, num_results).res

\* what a CV operation or the search tool of backend/ returned
CvNoResult ==
    [returned |-> FALSE, success |-> FALSE, error |-> "", cv_analysis |-> NoData,
     jobs |-> << >>, job_search_success |-> FALSE, job_search_error |-> ""]

CvFailure(msg, analysis) ==
    [returned |-> TRUE, success |-> FALSE, error |-> msg, cv_analysis |-> analysis,
     jobs |-> << >>, job_search_success |-> FALSE, job_search_error |-> ""]

\* the dictionary search_jobs_from_cv returns after its job search step
CvCombined(analysis, jobs_result) ==
    [returned |-> TRUE, success |-> TRUE, error |-> "", cv_analysis |-> analysis,
     jobs |-> jobs_result.jobs, job_search_success |-> jobs_result.success,
     job_search_error |-> jobs_result.error]

\* the dictionary a searcher or a parser returned, handed on unchanged
CvPassOn(res, analysis, jobs) ==
    [returned |-> TRUE, success |-> res.success, error |-> res.error,
     cv_analysis |-> analysis, jobs |-> jobs,
     job_search_success |-> FALSE, job_search_error |-> ""]

(* Inputs of the CV operations *)

Resume ==
    [professional_title |-> <<"data", Blank, "engineer">>,
     experiences |-> <<[job_title |-> Str("analyst")]>>,
     technical_skills |-> <<[name |-> Str("sql")]>>,
     contact_info |-> [city |-> Str("Austin"), state |-> Str("TX")],
     preferred_work_type |-> Str("Remote"),
     total_years_experience |-> <<"3">>]

Resumes ==
    { Resume,
      [Resume EXCEPT !.professional_title = SentinelNone,
                     !.contact_info = [city |-> Str("Austin"), state |-> SentinelNone],
                     !.total_years_experience = <<"1", "2">>],
      [Resume EXCEPT !.professional_title = SentinelNone,
                     !.experiences = << >>,
                     !.contact_info = [city |-> SentinelNone, state |-> SentinelNone],
                     !.preferred_work_type = SentinelNone,
                     !.total_years_experience = SentinelNone],
      [Resume EXCEPT !.professional_title = Empty,
                     !.experiences = << >>,
                     !.technical_skills = << >>,
                     !.contact_info = EmptyDict,
                     !.total_years_experience = <<"3", ".", "5">>] }
    \cup { [Resume EXCEPT !.total_years_experience = y] :
              y \in {<<"2">>, <<"5">>, <<"6">>, <<"1", "0">>, <<"1", "1">>} }

Strategy ==
    [primary_search |-> [keyword |-> <<"ml", Blank, "engineer">>,
                         location |-> Str("Berlin"),
                         experience_level |-> Str("senior"),
                         industry |-> Str("finance")],
     reasoning |-> Str("focus")]

CvDefaultArgs ==
    [cv_content |-> Str("resume"), cv_content_type |-> Str("text"), location |-> Empty,
     job_type |-> Empty, work_arrangement |-> Empty, num_results |-> 5,
     include_entry_level |-> FALSE]

CvArgsSet ==
    { [CvDefaultArgs EXCEPT !.cv_content = c, !.cv_content_type = t, !.location = l,
                            !.include_entry_level = x] :
        c \in {Empty, <<Blank>>, Str("resume")},
        t \in {Str("text"), Str("PDF"), Str("docx")},
        l \in {Empty, Str("Oslo")},
        x \in BOOLEAN }

CvHealthyEnv ==
    [api_key |-> TRUE, cse_id |-> TRUE, groq_ok |-> TRUE, chain_ok |-> TRUE,
     file_exists |-> TRUE, pdf_text |-> "ok", resume_model |-> "ok", resume |-> Resume,
     strategy_model |-> "json", strategy |-> Strategy, search |-> "ok", found |-> 3]

CvEnvs ==
    LET cases == {
      CvHealthyEnv,
      [CvHealthyEnv EXCEPT !.api_key = FALSE],
      [CvHealthyEnv EXCEPT !.cse_id = FALSE],
      [CvHealthyEnv EXCEPT !.groq_ok = FALSE],
      [CvHealthyEnv EXCEPT !.chain_ok = FALSE],
      [CvHealthyEnv EXCEPT !.file_exists = FALSE],
      [CvHealthyEnv EXCEPT !.pdf_text = "empty"],
      [CvHealthyEnv EXCEPT !.pdf_text = "raises"],
      [CvHealthyEnv EXCEPT !.resume_model = "raises"],
      [CvHealthyEnv EXCEPT !.strategy_model = "text"],
      [CvHealthyEnv EXCEPT !.strategy_model = "raises"],
      [CvHealthyEnv EXCEPT !.strategy = [reasoning |-> Str("none")]],
      [CvHealthyEnv EXCEPT !.search = "fails"],
      [CvHealthyEnv EXCEPT !.search = "raises"],
      [CvHealthyEnv EXCEPT !.found = 0] }
    IN  { [e EXCEPT !.resume = r] : e \in cases, r \in Resumes }

\* no CV operation runs
CvAtRest ==
    /\ cv_pc = "off"
    /\ cv_args = CvDefaultArgs
    /\ cv_env = CvHealthyEnv
    /\ cv_analysis = NoData
    /\ search_params = EmptyDict
    /\ net = << >>
    /\ cv_result = CvNoResult

NoItem == [present |-> FALSE]

\* no item is being parsed
ParserAtRest ==
    /\ x_pc = "off"
    /\ x_item = NoItem
    /\ x_job = NoItem

-----------------------------------------------------------------------------
(* The values of the HTTP server (backend/fastapi_server.py) and of the model
   configuration (backend/config.py). A model is its id; a chat message is its
   role and its content; the memory of an agent is the sequence of the
   exchanges saved in it. *)

MaxHistory == 4     \* messages in the chatHistory of a request
MaxFiles == 2       \* file ids the registry can hold
MaxMemory == 2      \* exchanges in a memory below which an upload is served

\* the default of the model_name parameter of create_linkedin_job_agent
DefaultAgentModel == "deepseek-r1-distill-llama-70b"

\* the default_model of the configuration used when models.json is missing
FallbackModel == "llama-3.3-70b-versatile"

UnlistedModel == "unlisted-model"

\* load_models_config: the fallback configuration, or a models.json that lists
\* a second model
ModelsConfigs ==
    { [default_model |-> FallbackModel, available_models |-> <<FallbackModel>>],
      [default_model |-> FallbackModel,
       available_models |-> <<FallbackModel, DefaultAgentModel>>] }

RequestedModels == {FallbackModel, DefaultAgentModel, UnlistedModel}

\* AVAILABLE_MODELS = [model["id"] for model in _models_config["available_models"]]
AVAILABLE_MODELS ==
    { models_config.available_models[k] : k \in DOMAIN models_config.available_models }

\* update_model_name: whether the name is accepted, and the configuration after
update_model_name(new_model_name) ==
    IF new_model_name \in AVAILABLE_MODELS
    THEN [success |-> TRUE, MODEL_NAME |-> new_model_name,
          models_config |-> [models_config EXCEPT !.default_model = new_model_name]]
    ELSE [success |-> FALSE, MODEL_NAME |-> MODEL_NAME, models_config |-> models_config]

get_current_model == MODEL_NAME

Roles == {"user", "assistant", "system"}

\* the content of the message at each position of a chat history: no two
\* messages of a history have the same content
Contents == <<"m1", "m2", "m3", "m4", "m5", "m6", "m7", "m8">>

ChatMessage(role, content) == [role |-> role, content |-> content]

ChatHistories ==
    UNION { { [i \in 1..k |-> ChatMessage(roles[i], Contents[i])] :
                 roles \in [1..k -> Roles] } : k \in 0..MaxHistory }

Exchange(input_text, output_text) == [input |-> input_text, output |-> output_text]

\* ConversationBufferMemory.save_context
save_context(memory, input_text, output_text) ==
    Append(memory, Exchange(input_text, output_text))

\* mutant: clearing the memory leaves it as it is
memory_kept(memory) == memory

\* ConversationBufferMemory.clear
memory_clear(memory) == << >>

\* create_linkedin_job_agent: the executor, its model and its empty memory
create_linkedin_job_agent(model_name) ==
    [key |-> "current_agent", model |-> model_name, memory |-> << >>]

\* get_agent: the cached agent, or a new one built without a model argument and
\* cached; the constructor of the model raises without credentials
get_agent ==
    IF agents_cache # {}
    THEN [raised |-> FALSE, cache |-> agents_cache]
    ELSE IF srv_env.groq_ok
         THEN [raised |-> FALSE,
               cache |-> {create_linkedin_job_agent(DefaultAgentModel)}]
         ELSE [raised |-> TRUE, cache |-> agents_cache]

RECURSIVE RestoreFrom(_, _, _)
\* the while loop of chat_endpoint, from the message at position i (counted from 1)
RestoreFrom(chatHistory, i, memory) ==
    IF i > Len(chatHistory)
    THEN memory
    ELSE LET msg == chatHistory[i]
             answered == /\ i + 1 <= Len(chatHistory)
                         /\ chatHistory[i + 1].role = "assistant"
         IN  IF msg.role = "user"
             THEN RestoreFrom(chatHistory,
                              IF answered THEN i + 2 ELSE i + 1,
                              save_context(memory, msg.content,
                                           IF answered THEN chatHistory[i + 1].content
                                                       ELSE ""))
             ELSE RestoreFrom(chatHistory, i + 1, memory)

\* the memory of the agent after chat_endpoint has handled the chat history
Restored(agent, chatHistory) ==
    [agent EXCEPT !.memory = IF chatHistory = << >>
                             THEN memory_clear(@)
                             ELSE RestoreFrom(chatHistory, 1, memory_clear(@))]

\* AgentExecutor.invoke saves the exchange in the memory of the executor
Invoked(agent, input_text, output_text) ==
    [agent EXCEPT !.memory = save_context(@, input_text, output_text)]

Uploads ==
    { [filename |-> "cv.pdf", suffix |-> ".pdf"],
      [filename |-> "cv.exe", suffix |-> ".exe"],
      [filename |-> "", suffix |-> ""] }

SupportedSuffixes == {".pdf", ".doc", ".docx", ".txt"}

FileIds == 1..MaxFiles

NoRequest ==
    [endpoint |-> "none", model |-> "", message |-> "", chatHistory |-> << >>,
     filename |-> ""]

Request(endpoint) == [NoRequest EXCEPT !.endpoint = endpoint]

NoResponse ==
    [endpoint |-> "none", status |-> 0, success |-> FALSE, current_model |-> ""]

Response(endpoint, status, success) ==
    [NoResponse EXCEPT !.endpoint = endpoint, !.status = status, !.success = success]

\* the server does not run
ServerAtRest ==
    /\ srv_pc = "off"
    /\ models_config = [default_model |-> FallbackModel,
                        available_models |-> <<FallbackModel>>]
    /\ MODEL_NAME = FallbackModel
    /\ agents_cache = {}
    /\ uploaded_files = {}
    /\ srv_env = [groq_ok |-> TRUE]
    /\ request = NoRequest
    /\ response = NoResponse
    /\ last_update = NoResponse

-----------------------------------------------------------------------------
(* Texts of a search result item, and the regular expressions of the
   deterministic parser (backend/manual_parser.py; the searcher of
   backend/tools/ has the same code in its _extract_* methods).

   The title and the snippet of an item are strings whose tokens are blanks,
   line breaks, punctuation marks and words. A word is a maximal run of other
   characters, or a phrase the patterns read as a unit (a label "Posted:", a
   relative time "3 days ago"), so that no two words are adjacent. *)

MidDot == "&middot;"     \* the character U+00B7
EnDash == "&ndash;"      \* the character U+2013

\* the characters [^\n\.\,] excludes
IsTerminator(t) == t \in {Newline, ".", ","}
InGroup(t) == ~IsTerminator(t)

\* the characters [^·\-\|] excludes
IsSeparator(t) == t \in {MidDot, "-", "|"}
NotSeparator(t) == ~IsSeparator(t)

IsComma(t) == t = ","

MinOf(S) == CHOOSE m \in S : \A k \in S : m <= k
MaxOf(S) == CHOOSE m \in S : \A k \in S : m >= k

\* the last index of the longest run of tokens satisfying Ok that starts at p
\* (p - 1 when s[p] does not satisfy it): a greedy  [class]*  from p
RunEnd(s, p, Ok(_)) ==
    LET stops == {k \in p..Len(s) : ~Ok(s[k])}
    IN  IF stops = {} THEN Len(s) ELSE MinOf(stops) - 1

\* the first index, not below from, of the longest run of tokens satisfying Ok
\* that ends at p (p + 1 when s[p] does not satisfy it)
RunStart(s, p, from, Ok(_)) ==
    LET stops == {k \in from..p : ~Ok(s[k])}
    IN  IF stops = {} THEN from ELSE MaxOf(stops) + 1

\* the positions of the tokens of a class
Positions(s, class) == {i \in 1..Len(s) : s[i] \in class}

\* s \o t \o ... of a sequence of sequences
RECURSIVE Flatten(_)
Flatten(ss) == IF ss = << >> THEN << >> ELSE Head(ss) \o Flatten(Tail(ss))

NoMatch == [found |-> FALSE, from |-> 0, to |-> 0]

\* the match of  <label>\s*([^\n\.\,]+)  at the label s[i]: \s* takes every blank
\* and line break after the label, then gives them back one at a time until the
\* group has a first character; the group runs up to the next terminator
LabelledAt(s, i) ==
    LET group(starts) ==
            IF starts = {} THEN NoMatch
            ELSE [found |-> TRUE, from |-> MaxOf(starts),
                  to |-> RunEnd(s, MaxOf(starts), InGroup)]
        upto(j) == group({p \in (i + 1)..Min(j, Len(s)) : InGroup(s[p])})
    IN  upto(RunEnd(s, i + 1, IsSpace) + 1)

\* re.search(r'<label>\s*([^\n\.\,]+)', s[from:]): the leftmost label at which the
\* pattern matches; match.group(1) is s[m.from..m.to]
Labelled(s, label, from) ==
    LET leftmost(at) == IF at = {} THEN NoMatch ELSE LabelledAt(s, MinOf(at))
    IN  leftmost({i \in from..Len(s) : s[i] = label /\ LabelledAt(s, i).found})

\* "for pattern in patterns: match = re.search(pattern, s)" over labelled
\* patterns: the groups of the patterns that match, in the order of the patterns
LabelledGroups(s, labels) ==
    LET groups(ms) == [k \in 1..Len(ms) |-> SubSeq(s, ms[k].from, ms[k].to)]
    IN  groups(SelectSeq([k \in 1..Len(labels) |-> Labelled(s, labels[k], 1)],
                         LAMBDA m : m.found))

\* re.findall(r'<label>\s*([^\n\.\,]+)', s[from:]): the groups of the matches from
\* left to right, each search starting where the match before it ended
RECURSIVE LabelledAll(_, _, _)
LabelledAll(s, label, from) ==
    LET rest(m) == IF ~m.found THEN << >>
                   ELSE <<SubSeq(s, m.from, m.to)>> \o LabelledAll(s, label, m.to + 1)
    IN  rest(Labelled(s, label, from))

\* len(s) > 2, by the number of characters of the tokens
OneCharTokens == {Blank, Newline, ".", ",", "-", "|", MidDot, EnDash, Quote}
LongerThanTwo(s) ==
    \/ Len(s) >= 3
    \/ Len(s) = 2 /\ \E k \in 1..2 : s[k] \notin OneCharTokens
    \/ Len(s) = 1 /\ s[1] \notin OneCharTokens \cup {"at", "ab", "NY"}

extract_posted_date(snippet) ==
    LET labelled == LabelledGroups(snippet, <<"Posted:", "Published:">>)
        \* (\d+)\s+(?:days?|hours?|weeks?|months?)\s+ago, and the digits captured
        relative == Positions(snippet, {"3 days ago", "1 week ago"})
        count(t) == IF t = "3 days ago" THEN "3" ELSE "1"
        \* (\d{1,2}/\d{1,2}/\d{4})  and  (\d{4}-\d{2}-\d{2})
        slash == Positions(snippet, {"1/5/2024"})
        iso == Positions(snippet, {"2024-01-05"})
        first(groups) ==
            IF groups # << >> THEN Head(groups)
            ELSE IF relative # {} THEN Str(count(snippet[MinOf(relative)]))
            ELSE IF slash # {} THEN Str(snippet[MinOf(slash)])
            ELSE IF iso # {} THEN Str(snippet[MinOf(iso)])
            ELSE Str("Date not specified")
    IN  first(labelled)

extract_job_type(snippet) ==
    LET \* \b(Full[- ]time|Part[- ]time|Contract|Freelance|Internship|Temporary|Permanent)\b
        canonical == Positions(snippet, {"Full-time", "Full time", "Part-time",
                                         "Part time", "Contract", "Freelance",
                                         "Internship", "Temporary", "Permanent"})
        labelled == LabelledGroups(snippet,
                                   <<"Employment Type:", "Job Type:", "Position Type:">>)
        first(groups) ==
            IF canonical # {} THEN Str(snippet[MinOf(canonical)])
            ELSE IF groups # << >> THEN Strip(Head(groups))
            ELSE Str("Not specified")
    IN  first(labelled)

\* [\d,]+ takes the commas next to an amount with it; in the texts explored no
\* comma stands between two amounts
extract_salary(snippet) ==
    LET \* \$[\d,]+(?:\s*-\s*\$[\d,]+)?(?:\s*(?:per\s+)?(?:year|month|hour|annually))?
        dollar == Positions(snippet, {"$500"})
        \* [\d,]+\s*-\s*[\d,]+\s*(?:USD|VND|EUR|GBP)
        range == Positions(snippet, {"80000 - 120000 USD"})
        labelled == LabelledGroups(snippet, <<"Salary:", "Compensation:", "Pay:">>)
        first(groups) ==
            IF dollar # {}
            THEN SubSeq(snippet, MinOf(dollar),
                        RunEnd(snippet, MinOf(dollar) + 1, IsComma))
            ELSE IF range # {}
            THEN SubSeq(snippet, RunStart(snippet, MinOf(range) - 1, 1, IsComma),
                        MinOf(range))
            ELSE IF groups # << >> THEN Head(groups)
            ELSE Str("Not specified")
    IN  first(labelled)

\* [A-Za-z\s]: a blank, a line break, and the words made of letters only
IsAlpha(t) ==
    IsSpace(t) \/ t \in {"today", "Seasonal", "Contract", "negotiable", "Austin", "Texas",
                         "NY", "remote", "job", "Acme", "ab", "hiring"}

\* re.findall(r'([A-Za-z\s]+,\s*[A-Za-z\s]+(?:,\s*[A-Za-z\s]+)?)', s)
CityStateAll(s) ==
    LET \* the letters a label starts with, and the letters and blanks a relative
        \* time or a range ends with: the part of such a word [A-Za-z\s]+ can take
        prefix(t) == CASE t = "Location:" -> <<"Location">>
                       [] t = "Salary:"   -> <<"Salary">>
                       [] t = "Posted:"   -> <<"Posted">>
                       [] t = "Job Type:" -> <<"Job Type">>
                       [] t = "Company:"  -> <<"Company">>
                       [] OTHER           -> << >>
        suffix(t) == CASE t = "3 days ago"         -> <<" days ago">>
                       [] t = "1 week ago"         -> <<" week ago">>
                       [] t = "80000 - 120000 USD" -> <<" USD">>
                       [] OTHER                    -> << >>
        \* [A-Za-z\s]+ read backwards from the comma s[c], in a search from from
        back(c, from, a) ==
            (IF a - 1 >= from THEN suffix(s[a - 1]) ELSE << >>) \o SubSeq(s, a, c - 1)
        before(c, from) == back(c, from, RunStart(s, c - 1, from, IsAlpha))
        \* \s*[A-Za-z\s]+ read forwards from the comma s[c]: the text taken, the
        \* last token taken whole, and whether a part of the next one was taken
        forth(c, b, part) ==
            [text |-> SubSeq(s, c + 1, b) \o part, last |-> b, partial |-> part # << >>]
        upto(c, b) == forth(c, b, IF b < Len(s) THEN prefix(s[b + 1]) ELSE << >>)
        after(c) == upto(c, RunEnd(s, c + 1, IsAlpha))
        \* (?:,\s*[A-Za-z\s]+)? after the second part
        optional(c2, second) ==
            IF ~second.partial /\ c2 <= Len(s) /\ IsComma(s[c2]) THEN after(c2)
            ELSE [text |-> << >>, last |-> 0, partial |-> FALSE]
        \* the match around a comma: its text, and where the next search starts
        match(first, second, third, tail) ==
            [found |-> first # << >> /\ second.text # << >>,
             text  |-> first \o <<",">> \o second.text
                       \o (IF third.text # << >> THEN <<",">> \o third.text
                           ELSE << >>),
             next  |-> tail.last + (IF tail.partial THEN 2 ELSE 1)]
        ending(first, second, third) ==
            match(first, second, third, IF third.text # << >> THEN third ELSE second)
        parts(first, second) ==
            ending(first, second, optional(second.last + 1, second))
        at(c, from) == parts(before(c, from), after(c))
        RECURSIVE all(_), leftmost(_, _), found(_)
        all(from) ==
            leftmost(from, {c \in from..Len(s) : IsComma(s[c]) /\ at(c, from).found})
        leftmost(from, commas) ==
            IF commas = {} THEN << >> ELSE found(at(MinOf(commas), from))
        found(m) == <<m.text>> \o all(m.next)
    IN  all(1)

\* len(location) > 2 and none of 'experience', 'years', 'apply', 'job', 'position',
\* 'role' in location.lower()
PlausibleLocation(location) ==
    /\ LongerThanTwo(location)
    /\ \A k \in 1..Len(location) :
          location[k] \notin {"job", "Job Type", "Job Type:", "Position Type:"}

extract_location(snippet) ==
    LET labels == <<"Location:", "Based in:", "Office location:">>
        dashes == <<"Remote -", "Hybrid -">>
        \* the matches of the patterns in the order the two loops visit them
        matches == Flatten([k \in 1..3 |-> LabelledAll(snippet, labels[k], 1)])
                   \o CityStateAll(snippet)
                   \o Flatten([k \in 1..2 |-> LabelledAll(snippet, dashes[k], 1)])
        stripped(ms) == [k \in 1..Len(ms) |-> Strip(ms[k])]
        first(plausible) ==
            IF plausible # << >> THEN Head(plausible)
            ELSE IF Positions(snippet, {"remote", "Remote", "Remote -", "wfh",
                                        "work from home"}) # {}
            THEN Str("Remote")
            ELSE IF Positions(snippet, {"hybrid", "Hybrid", "Hybrid -"}) # {}
            THEN Str("Hybrid")
            ELSE Str("Location not specified")
    IN  first(SelectSeq(stripped(matches), PlausibleLocation))

\* clean_title with the first substitution only: "|" and the en dash are left
clean_title_dash_only(title) ==
    LET hits == {i \in 1..Len(title) :
                    /\ title[i] = "-"
                    /\ RunEnd(title, i + 1, IsSpace) < Len(title)
                    /\ title[RunEnd(title, i + 1, IsSpace) + 1] = "LinkedIn"}
        upto(found) ==
            IF found = {} THEN title
            ELSE SubSeq(title, 1, RunStart(title, MinOf(found) - 1, 1, IsSpace) - 1)
    IN  Strip(upto(hits))

clean_title(title) ==
    LET \* re.sub(r'\s*<sep>\s*LinkedIn.*$', '', s): the leftmost separator that
        \* "LinkedIn" follows, with the blanks before it and all that comes after
        follows(s, j) == j <= Len(s) /\ s[j] = "LinkedIn"
        upto(s, hits) ==
            IF hits = {} THEN s
            ELSE SubSeq(s, 1, RunStart(s, MinOf(hits) - 1, 1, IsSpace) - 1)
        cut(s, sep) ==
            upto(s, {i \in 1..Len(s) :
                        s[i] = sep /\ follows(s, RunEnd(s, i + 1, IsSpace) + 1)})
    IN  Strip(cut(cut(cut(title, "-"), "|"), EnDash))

\* len(company) > 2 and none of 'job', 'career', 'hiring', 'posted' in
\* company.lower()
PlausibleCompany(company) ==
    /\ LongerThanTwo(company)
    /\ \A k \in 1..Len(company) :
          company[k] \notin {"job", "Jobs", "hiring", "Posted:", "Job Type:"}

\* re.search of the k-th title pattern,  <lead>\s(+|*)([^·\-\|]+?)(?:\s*[·\-\|]|\s*$)
\* with the leads  at\s+ , ·\s* , -\s* , \|\s* : the lazy group ends before the
\* blanks that precede the next separator or the end; a group that would start at
\* a separator or at the end takes back a blank instead
TitleMatch(s, k) ==
    LET leads == <<{"at"}, {MidDot}, {"-"}, {"|"}>>
        min_blanks == IF k = 1 THEN 1 ELSE 0
        group(i, j) ==
            IF j <= Len(s) /\ NotSeparator(s[j])
            THEN [found |-> j - i - 1 >= min_blanks,
                  company |-> Strip(SubSeq(s, j, RunEnd(s, j, NotSeparator)))]
            ELSE [found |-> j - i - 1 >= min_blanks + 1, company |-> Empty]
        at(i) == group(i, RunEnd(s, i + 1, IsSpace) + 1)
        leftmost(hits) ==
            IF hits = {} THEN [found |-> FALSE, company |-> Empty] ELSE at(MinOf(hits))
    IN  leftmost({i \in 1..Len(s) : s[i] \in leads[k] /\ at(i).found})

extract_company_name(title, snippet) ==
    LET matched == SelectSeq([k \in 1..4 |-> TitleMatch(title, k)], LAMBDA m : m.found)
        labelled == LabelledGroups(snippet, <<"Company:", "Organization:", "Employer:",
                                              "Job at", "Position at">>)
        companies(ms) == [k \in 1..Len(ms) |-> ms[k].company]
        stripped(groups) == [k \in 1..Len(groups) |-> Strip(groups[k])]
        first(from_title, from_snippet) ==
            IF from_title # << >> THEN Head(from_title)
            ELSE IF from_snippet # << >> THEN Head(from_snippet)
            ELSE Str("Unknown Company")
    IN  first(SelectSeq(companies(matched), PlausibleCompany),
              SelectSeq(stripped(labelled), LongerThanTwo))

(* Records *)

\* a value of a record: None, a str or a list of str
PyNone == [t |-> "None", s |-> Empty, l |-> << >>]
PyStr(s) == [t |-> "str", s |-> s, l |-> << >>]
PyList(l) == [t |-> "list", s |-> Empty, l |-> l]

\* the links of the items: a listing, a search page of the listing domain, a profile
Links == [view    |-> "https://www.linkedin.com/jobs/view/123",
          search  |-> "https://www.linkedin.com/jobs/search?keywords=python",
          profile |-> "https://www.linkedin.com/in/someone"]

\* 'linkedin.com/jobs' in item.get('link', '')
IsListingLink(url) == url \in {Links.view, Links.search}

\* re.search(r'/jobs/view/(\d+)', url): group(1), or None
JobIdOf(url) == IF url = Links.view THEN PyStr(Str("123")) ELSE PyNone

extract_job_info(item) ==
    LET job_info(title) ==
            [job_id      |-> JobIdOf(item.link),
             title       |-> PyStr(title),
             company     |-> PyStr(extract_company_name(title, item.snippet)),
             location    |-> PyStr(extract_location(item.snippet)),
             job_type    |-> PyStr(extract_job_type(item.snippet)),
             salary      |-> PyStr(extract_salary(item.snippet)),
             posted_date |-> PyStr(extract_posted_date(item.snippet)),
             description |-> PyStr(item.snippet),
             url         |-> PyStr(Str(item.link)),
             source      |-> PyStr(Str("linkedin"))]
    IN  job_info(clean_title(item.title))

(* JobSchema: the validator applied to every field before the field's type *)

ArrayFields == {"benefits", "responsibilities", "required_skills", "preferred_skills",
                "soft_skills", "education_requirements", "experience_requirements",
                "certifications_required", "languages_required", "technologies",
                "programming_languages"}

\* backend/schema.py
handle_none_values(field_name, v) ==
    IF field_name \in ArrayFields
    THEN IF v = PyStr(SentinelNone) \/ v = PyStr(Empty) \/ v = PyNone THEN PyList(<< >>)
         ELSE IF v.t = "str" /\ Strip(v.s) = Empty THEN PyList(<< >>)
         ELSE v
    ELSE IF v = PyStr(Empty) \/ v = PyNone THEN PyStr(SentinelNone) ELSE v

\* backend/tools/schema.py
empty_str_to_none(v) ==
    IF v = PyStr(Empty) \/ v = PyNone THEN PyStr(SentinelNone) ELSE v

(* The model-based parser: one iteration of the loop of _parse_search_results_llm *)

\* what JsonOutputFunctionsParser hands back for an item: the arguments the model
\* gave for the JobSchema of parser.py, a dict no validator has seen. The model
\* is told to write "None" for what is missing; it may write null or "" instead.
ModelOutput(item, writes) ==
    LET missing == CASE writes = "null"  -> PyNone
                     [] writes = "empty" -> PyStr(Empty)
                     [] OTHER            -> PyStr(SentinelNone)
    IN  [title            |-> PyStr(Strip(item.title)),
         company          |-> PyStr(SentinelNone),
         location         |-> PyStr(SentinelNone),
         job_type         |-> PyStr(SentinelNone),
         salary           |-> missing,
         posted_date      |-> missing,
         experience_level |-> missing,
         description      |-> PyStr(item.snippet),
         url              |-> PyStr(Str(item.link))]

\* the jobs one item adds to the list, under either strategy
ParsedJobs(item) ==
    LET job_info == ModelOutput(item, item.model)
    IN  IF ~IsListingLink(item.link) THEN << >>
        ELSE IF item.method = "llm" /\ item.model # "raises"
        THEN \* job_info["job_id"] = job_id; job_info["source"] = "linkedin"
             <<[k \in DOMAIN job_info \cup {"job_id", "source"} |->
                   CASE k = "job_id" -> JobIdOf(item.link)
                     [] k = "source" -> PyStr(Str("linkedin"))
                     [] OTHER        -> job_info[k]]>>
        ELSE <<extract_job_info(item)>>

(* Inputs of the parsers *)

\* Longest snippet and longest title explored, in tokens.
MaxSnippetLen == 5
MaxTitleLen == 5

\* no two words of a text are adjacent
WellFormed(s) ==
    \A k \in 1..(Len(s) - 1) :
        ~(s[k] \notin OneCharTokens /\ s[k + 1] \notin OneCharTokens)

\* the tokens of the snippets: an alphabet or two for each field extractor
SnippetAlphabets ==
    {{Blank, Newline, ".", "Posted:", "today", "3 days ago", "2024-01-05"},
     {Blank, ".", "Job Type:", "Seasonal", "Contract"},
     {Blank, ",", "Salary:", "negotiable", "$500"},
     {Blank, ".", "Salary:", "80000 - 120000 USD"},
     {Blank, ",", Newline, "Location:", "Austin", "NY", "remote", "job"},
     {Blank, ".", "Company:", "Acme", "ab", "hiring"}}

\* the tokens of the titles: one alphabet for clean_title, one for the title
\* patterns of extract_company_name
TitleAlphabets ==
    {{Blank, "-", "|", EnDash, "Engineer", "LinkedIn", "Jobs"},
     {Blank, "-", "|", MidDot, "at", "Acme", "hiring", "ab"}}

Item(title, link, snippet, method, model) ==
    [present |-> TRUE, title |-> title, link |-> link, snippet |-> snippet,
     method |-> method, model |-> model]

\* every link under every strategy and every conduct of the model
LinkItems ==
    {Item(<<"Engineer", Blank, "at", Blank, "Acme">>, l,
          <<"Posted:", Blank, "today">>, m[1], m[2]) :
        l \in {Links.view, Links.search, Links.profile},
        m \in {<<"manual", "none">>, <<"llm", "told">>, <<"llm", "null">>,
               <<"llm", "empty">>, <<"llm", "raises">>}}

\* a field of a JobSchema, and a value given for it
FieldInputs ==
    {[present |-> TRUE, schema |-> m, field |-> f, value |-> v] :
        m \in {"backend/schema.py", "backend/tools/schema.py"},
        f \in {"required_skills", "benefits", "title", "salary_min"},
        v \in {PyNone, PyStr(Empty), PyStr(SentinelNone), PyStr(<<Blank>>),
               PyStr(Str("Python")), PyList(<< >>), PyList(<<Str("Python")>>)}}

-----------------------------------------------------------------------------
(* The state machine *)

InitWith(A, E, P) ==
    /\ pc = "idle"
    /\ args \in A
    /\ env \in E
    /\ provider \in P
    /\ llm_available = FALSE
    /\ chain_ready = FALSE
    /\ input = Rejected
    /\ path = "none"
    /\ parsing_method = "none"
    /\ query = Empty
    /\ date_restrict = Empty
    /\ all_jobs = << >>
    /\ start_index = 1
    /\ calls = << >>
    /\ parse_log = << >>
    /\ result = NoResult

\* the search tool of backend/tools/ is the operation that runs
InitTool(A, E, P) ==
    /\ InitWith(A, E, P)
    /\ op = "tools.search_linkedin_jobs"
    /\ CvAtRest
    /\ ParserAtRest
    /\ ServerAtRest

Init == InitTool(PagingArgs, Envs, Providers)

\* the arguments fail LinkedInJobSearchInput: the tool body does not run
ValidationError ==
    /\ pc = "idle"
    /\ LinkedInJobSearchInput(args).rejected
    /\ pc' = "rejected"
    /\ UNCHANGED <<args, env, provider, llm_available, chain_ready, input, path,
                   parsing_method, query, date_restrict, all_jobs, start_index,
                   calls, parse_log, result>>
    /\ UNCHANGED <<cvVars, xVars, srvVars>>

\* "if not api_key or not search_engine_id: return {...}"
MissingCredentials ==
    /\ pc = "idle"
    /\ ~LinkedInJobSearchInput(args).rejected
    /\ ~(env.api_key /\ env.cse_id)
    /\ input' = LinkedInJobSearchInput(args)
    /\ result' = Failure(<<"Missing", Blank, "Google", Blank, "API", Blank, "credentials">>)
    /\ pc' = "done"
    /\ UNCHANGED <<args, env, provider, llm_available, chain_ready, path,
                   parsing_method, query, date_restrict, all_jobs, start_index,
                   calls, parse_log>>
    /\ UNCHANGED <<cvVars, xVars, srvVars>>

\* the tool up to the first provider call: the searcher is constructed, the path is
\* chosen, and the searcher method sets its strategy and its query
StartSearch ==
    /\ pc = "idle"
    /\ ~LinkedInJobSearchInput(args).rejected
    /\ env.api_key /\ env.cse_id
    /\ LET i == LinkedInJobSearchInput(args)
       IN  /\ input' = i
           /\ llm_available' = LlmAvailableAfterInit(env)
           /\ chain_ready' = ChainReadyAfterInit(env)
           /\ path' = IF UsesFilters(i) THEN "filters" ELSE "basic"
           /\ parsing_method' = EffectiveMethod(i.parsing_method, LlmAvailableAfterInit(env))
           /\ query' = ToolQuery(i)
           /\ date_restrict' = DateRestrict(i)
    /\ all_jobs' = << >>
    /\ start_index' = 1
    /\ pc' = "searching"
    /\ UNCHANGED <<args, env, provider, calls, parse_log, result>>
    /\ UNCHANGED <<cvVars, xVars, srvVars>>

\* one iteration of the while loop whose provider call succeeds
SearchBatch ==
    /\ pc = "searching"
    /\ path = "basic"
    /\ LoopContinues(all_jobs, input.num_results, start_index)
    /\ LET batch_size == BatchSize(input.num_results, all_jobs)
           items == ProviderItems(provider, start_index, batch_size)
           batch == ParseBatch(parsing_method, env, chain_ready, items)
       IN  /\ calls' = Append(calls, Call(query, batch_size, start_index,
                                           date_restrict, Len(all_jobs), items))
           /\ parse_log' = parse_log \o batch.log
           /\ IF EndsPagination(batch.jobs)
              THEN \* the break, then the return
                   /\ result' = ToolReturn(BasicSuccess(query, all_jobs, input.num_results,
                                                        parsing_method), input)
                   /\ pc' = "done"
                   /\ UNCHANGED <<all_jobs, start_index>>
              ELSE /\ all_jobs' = all_jobs \o batch.jobs
                   /\ start_index' = NextStart(start_index)
                   /\ UNCHANGED <<pc, result>>
    /\ UNCHANGED <<args, env, provider, llm_available, chain_ready, input, path,
                   parsing_method, query, date_restrict>>
    /\ UNCHANGED <<cvVars, xVars, srvVars>>

\* the loop condition is false: trim and return
SearchReturn ==
    /\ pc = "searching"
    /\ path = "basic"
    /\ ~LoopContinues(all_jobs, input.num_results, start_index)
    /\ result' = ToolReturn(BasicSuccess(query, all_jobs, input.num_results,
                                         parsing_method), input)
    /\ pc' = "done"
    /\ UNCHANGED <<args, env, provider, llm_available, chain_ready, input, path,
                   parsing_method, query, date_restrict, all_jobs, start_index,
                   calls, parse_log>>
    /\ UNCHANGED <<cvVars, xVars, srvVars>>

\* requests.get or raise_for_status raises in the loop: the except clause returns
SearchRequestFails ==
    /\ pc = "searching"
    /\ path = "basic"
    /\ LoopContinues(all_jobs, input.num_results, start_index)
    /\ calls' = Append(calls, FailedCall(query, BatchSize(input.num_results, all_jobs),
                                         start_index, date_restrict, Len(all_jobs)))
    /\ result' = ToolReturn(ExceptRequest(all_jobs), input)
    /\ pc' = "done"
    /\ UNCHANGED <<args, env, provider, llm_available, chain_ready, input, path,
                   parsing_method, query, date_restrict, all_jobs, start_index,
                   parse_log>>
    /\ UNCHANGED <<cvVars, xVars, srvVars>>

\* search_with_filters: its single provider call succeeds
FiltersSearch ==
    /\ pc = "searching"
    /\ path = "filters"
    /\ LET num == FiltersNum(input.num_results)
           items == ProviderItems(provider, 1, num)
           batch == ParseBatch(parsing_method, env, chain_ready, items)
       IN  /\ calls' = Append(calls, Call(query, num, 1, date_restrict, 0, items))
           /\ parse_log' = parse_log \o batch.log
           /\ all_jobs' = batch.jobs
           /\ result' = ToolReturn(FiltersSuccess(query, batch.jobs, parsing_method), input)
    /\ pc' = "done"
    /\ UNCHANGED <<args, env, provider, llm_available, chain_ready, input, path,
                   parsing_method, query, date_restrict, start_index>>
    /\ UNCHANGED <<cvVars, xVars, srvVars>>

\* search_with_filters: the provider call raises
FiltersRequestFails ==
    /\ pc = "searching"
    /\ path = "filters"
    /\ calls' = Append(calls, FailedCall(query, FiltersNum(input.num_results), 1,
                                         date_restrict, 0))
    /\ result' = ToolReturn(ExceptFilters(all_jobs), input)
    /\ pc' = "done"
    /\ UNCHANGED <<args, env, provider, llm_available, chain_ready, input, path,
                   parsing_method, query, date_restrict, all_jobs, start_index,
                   parse_log>>
    /\ UNCHANGED <<cvVars, xVars, srvVars>>

Next ==
    \/ ValidationError
    \/ MissingCredentials
    \/ StartSearch
    \/ SearchBatch
    \/ SearchReturn
    \/ SearchRequestFails
    \/ FiltersSearch
    \/ FiltersRequestFails

Spec == Init /\ [][Next]_vars

\* The same tool over the filter and validation inputs, with one-record requests.
QueryArgs ==
    { [DefaultArgs EXCEPT !.num_results = 1, !.parsing_method = "manual",
                          !.location = l, !.job_type = jt, !.experience_level = el,
                          !.work_arrangement = wa, !.job_function = jf,
                          !.industry = ind, !.salary_range = sal,
                          !.company = c, !.exact_match_company = x] :
        l \in {Empty, <<Blank>>, Str("NYC"), <<Blank, "NYC">>},
        jt \in {Empty, Str("contract")},
        el \in {Empty, Str("senior")},
        wa \in {Empty, Str("remote")},
        jf \in {Empty, Str("engineering")},
        ind \in {Empty, Str("finance")},
        sal \in {Empty, Str("100k")},
        c \in {Empty, <<Blank>>, Str("Acme")},
        x \in BOOLEAN }

DateRangeInputs ==
    ValidRanges \cup {Empty, <<Blank>>, Str("zz"), Str("1m")}

ValidationArgs ==
    { [DefaultArgs EXCEPT !.num_results = n, !.parsing_method = m,
                          !.date_range = d, !.company = c] :
        n \in {NumResultsMin - 1, NumResultsMin, NumResultsMin + 1, NumResultsMax + 1},
        m \in {"llm", "manual", "regex"},
        d \in DateRangeInputs,
        c \in {Empty, Str("Acme")} }

FilterEnvs == { HealthyEnv, [HealthyEnv EXCEPT !.api_key = FALSE] }

FilterProviders ==
    { [total |-> 7, pattern |-> "mixed", honours_num |-> TRUE],
      [total |-> 0, pattern |-> "all", honours_num |-> TRUE] }

InitFilters == InitTool(QueryArgs \cup ValidationArgs, FilterEnvs, FilterProviders)

SpecFilters == InitFilters /\ [][Next]_vars

-----------------------------------------------------------------------------
(* The CV operations and the search tool of backend/ as a state machine *)

InitCv ==
    /\ InitWith({DefaultArgs}, {HealthyEnv},
                {[total |-> 0, pattern |-> "all", honours_num |-> TRUE]})
    /\ op \in {"search_jobs_from_cv", "parse_cv_content", "search_linkedin_jobs"}
    /\ cv_pc = "idle"
    /\ cv_args \in (IF op = "search_linkedin_jobs" THEN {CvDefaultArgs} ELSE CvArgsSet)
    /\ cv_env \in CvEnvs
    /\ cv_analysis = NoData
    /\ search_params = EmptyDict
    /\ net = << >>
    /\ cv_result = CvNoResult
    /\ ParserAtRest
    /\ ServerAtRest

\* parse_cv_content
ParseCvContent ==
    /\ op = "parse_cv_content"
    /\ cv_pc = "idle"
    /\ LET p == ParseCv(cv_args.cv_content, cv_args.cv_content_type, cv_env)
       IN  /\ net' = net \o p.res.net
           /\ cv_analysis' = p.res
           /\ cv_result' = CvPassOn(p.res, p.res, << >>)
    /\ cv_pc' = "done"
    /\ UNCHANGED <<op, cv_args, cv_env, search_params>>
    /\ UNCHANGED <<toolVars, xVars, srvVars>>

\* search_jobs_from_cv, step 1: parse the CV
CvParseStep ==
    /\ op = "search_jobs_from_cv"
    /\ cv_pc = "idle"
    /\ LET p == ParseCv(cv_args.cv_content, cv_args.cv_content_type, cv_env)
       IN  /\ net' = net \o p.res.net
           /\ IF p.early
              THEN /\ cv_result' = CvFailure(p.res.error, NoData)
                   /\ cv_pc' = "done"
                   /\ UNCHANGED cv_analysis
              ELSE IF ~p.res.success
              THEN /\ cv_result' = CvFailure("Failed to parse CV", p.res)
                   /\ cv_pc' = "done"
                   /\ cv_analysis' = p.res
              ELSE /\ cv_analysis' = p.res
                   /\ cv_pc' = "parsed"
                   /\ UNCHANGED cv_result
    /\ UNCHANGED <<op, cv_args, cv_env, search_params>>
    /\ UNCHANGED <<toolVars, xVars, srvVars>>

\* search_jobs_from_cv, step 2: _generate_search_parameters, which always succeeds
CvPlanStep ==
    /\ op = "search_jobs_from_cv"
    /\ cv_pc = "parsed"
    /\ LET g == GenerateSearchParameters(cv_analysis.data, cv_args, cv_env)
       IN  /\ search_params' = g.parameters
           /\ net' = net \o g.net
    /\ cv_pc' = "planned"
    /\ UNCHANGED <<op, cv_args, cv_env, cv_analysis, cv_result>>
    /\ UNCHANGED <<toolVars, xVars, srvVars>>

\* search_jobs_from_cv, steps 3 and 4: _search_jobs_with_params and the return
CvSearchStep ==
    /\ op = "search_jobs_from_cv"
    /\ cv_pc = "planned"
    /\ LET jobs_result == SearchJobsWithParams(cv_env, cv_args.num_results)
       IN  /\ net' = net \o jobs_result.net
           /\ cv_result' = CvCombined(cv_analysis, jobs_result)
    /\ cv_pc' = "done"
    /\ UNCHANGED <<op, cv_args, cv_env, cv_analysis, search_params>>
    /\ UNCHANGED <<toolVars, xVars, srvVars>>

\* search_linkedin_jobs of backend/linkedin_job_search_tool.py
BackendSearchTool ==
    /\ op = "search_linkedin_jobs"
    /\ cv_pc = "idle"
    /\ IF ~(cv_env.api_key /\ cv_env.cse_id)
       THEN /\ cv_result' = CvFailure(MissingCredentialsMessage, NoData)
            /\ cv_pc' = "done"
            /\ UNCHANGED net
       ELSE LET s == SearchJobs(cv_env, cv_args.num_results)
            IN  /\ net' = net \o s.res.net
                /\ IF s.raised
                   THEN cv_pc' = "raised" /\ UNCHANGED cv_result
                   ELSE /\ cv_result' = CvPassOn(s.res, NoData, s.res.jobs)
                        /\ cv_pc' = "done"
    /\ UNCHANGED <<op, cv_args, cv_env, cv_analysis, search_params>>
    /\ UNCHANGED <<toolVars, xVars, srvVars>>

NextCv ==
    \/ ParseCvContent
    \/ CvParseStep
    \/ CvPlanStep
    \/ CvSearchStep
    \/ BackendSearchTool

SpecCv == InitCv /\ [][NextCv]_vars

-----------------------------------------------------------------------------
(* The parsers and the validators of JobSchema as a state machine: one item, or
   one value given for a field, at a time *)

\* an item to parse: every snippet under a plain title, every title over a snippet
\* with and without a company label, and the items of LinkItems
InitItem ==
    \/ \E a \in SnippetAlphabets, k \in 0..MaxSnippetLen : \E s \in [1..k -> a] :
          /\ WellFormed(s)
          /\ x_item = Item(<<"Engineer">>, Links.view, s, "manual", "none")
    \/ \E a \in TitleAlphabets, k \in 0..MaxTitleLen : \E t \in [1..k -> a] :
          /\ WellFormed(t)
          /\ x_item \in {Item(t, Links.view, s, "manual", "none") :
                            s \in {Empty, <<"Company:", Blank, "Acme">>}}
    \/ x_item \in LinkItems

InitParser ==
    /\ InitWith({DefaultArgs}, {HealthyEnv},
                {[total |-> 0, pattern |-> "all", honours_num |-> TRUE]})
    /\ op \in {"parse_search_results", "JobSchema"}
    /\ CvAtRest
    /\ ServerAtRest
    /\ x_pc = "idle"
    /\ IF op = "JobSchema" THEN x_item \in FieldInputs ELSE InitItem
    /\ x_job = NoItem

\* the item is parsed into the record it adds to the list, or is skipped
Parsed(jobs) ==
    /\ x_job' = IF jobs = << >> THEN NoItem ELSE jobs[1]
    /\ x_pc' = IF jobs = << >> THEN "skipped" ELSE "done"

\* _parse_search_results / parse_search_results on one item
ParseItem ==
    /\ op = "parse_search_results"
    /\ x_pc = "idle"
    /\ x_item.method = "manual"
    /\ Parsed(ParsedJobs(x_item))
    /\ UNCHANGED <<x_item, toolVars, cvVars, srvVars>>

\* _parse_search_results_llm on one item
ParseItemWithModel ==
    /\ op = "parse_search_results"
    /\ x_pc = "idle"
    /\ x_item.method = "llm"
    /\ Parsed(ParsedJobs(x_item))
    /\ UNCHANGED <<x_item, toolVars, cvVars, srvVars>>

\* the validator of a JobSchema on one value
ValidateField ==
    /\ op = "JobSchema"
    /\ x_pc = "idle"
    /\ x_job' = [present |-> TRUE,
                 value |-> IF x_item.schema = "backend/schema.py"
                           THEN handle_none_values(x_item.field, x_item.value)
                           ELSE empty_str_to_none(x_item.value)]
    /\ x_pc' = "done"
    /\ UNCHANGED <<x_item, toolVars, cvVars, srvVars>>

NextParser ==
    \/ ParseItem
    \/ ParseItemWithModel
    \/ ValidateField

SpecParser == InitParser /\ [][NextParser]_vars

-----------------------------------------------------------------------------
(* The HTTP server of backend/fastapi_server.py as a state machine. A request
   is handled in one step, except a chat request: its first step ends where
   the memory of the agent has been rebuilt from the chat history, its second
   step runs the agent and answers. *)

InitServer ==
    /\ InitWith({DefaultArgs}, {HealthyEnv},
                {[total |-> 0, pattern |-> "all", honours_num |-> TRUE]})
    /\ op = "fastapi_server"
    /\ CvAtRest
    /\ ParserAtRest
    /\ srv_pc = "idle"
    /\ models_config \in ModelsConfigs
    /\ MODEL_NAME = models_config.default_model
    /\ agents_cache = {}
    /\ uploaded_files = {}
    /\ srv_env \in [groq_ok : BOOLEAN]
    /\ request = NoRequest
    /\ response = NoResponse
    /\ last_update = NoResponse

\* cleanup_user_files: every entry of the registry is popped
cleanup_user_files == {}

\* POST /api/model
update_model ==
    /\ srv_pc = "idle"
    /\ \E model \in RequestedModels :
          LET updated == update_model_name(model)
              answer == [Response("update_model", 200, updated.success)
                            EXCEPT !.current_model = updated.MODEL_NAME]
          IN  /\ request' = [Request("update_model") EXCEPT !.model = model]
              /\ MODEL_NAME' = updated.MODEL_NAME
              /\ models_config' = updated.models_config
              /\ agents_cache' = IF updated.success THEN {} ELSE agents_cache
              /\ uploaded_files' = IF updated.success THEN cleanup_user_files
                                                      ELSE uploaded_files
              /\ response' = answer
              /\ last_update' = answer
    /\ UNCHANGED <<srv_pc, srv_env>>
    /\ UNCHANGED <<toolVars, cvVars, xVars>>

\* POST /api/chat, up to the call of the agent
chat_endpoint_memory ==
    /\ srv_pc = "idle"
    /\ \E chatHistory \in ChatHistories :
          LET got == get_agent
          IN  /\ request' = [Request("chat") EXCEPT !.message = "hi",
                                                    !.chatHistory = chatHistory]
              /\ IF got.raised
                 THEN /\ agents_cache' = agents_cache
                      /\ srv_pc' = "idle"
                      /\ response' = Response("chat", 200, FALSE)
                 ELSE /\ agents_cache' = { Restored(agent, chatHistory) : agent \in got.cache }
                      /\ srv_pc' = "chat_restored"
                      /\ response' = response
    /\ UNCHANGED <<models_config, MODEL_NAME, uploaded_files, srv_env, last_update>>
    /\ UNCHANGED <<toolVars, cvVars, xVars>>

\* POST /api/chat, the call of the agent and the answer
chat_endpoint_invoke ==
    /\ srv_pc = "chat_restored"
    /\ \E answered \in BOOLEAN :
          /\ agents_cache' = IF answered
                             THEN { Invoked(agent, request.message, "reply") :
                                       agent \in agents_cache }
                             ELSE agents_cache
          /\ response' = Response("chat", 200, answered)
    /\ srv_pc' = "idle"
    /\ UNCHANGED <<models_config, MODEL_NAME, uploaded_files, srv_env, request,
                   last_update>>
    /\ UNCHANGED <<toolVars, cvVars, xVars>>

\* POST /api/chat/clear
clear_chat ==
    /\ srv_pc = "idle"
    /\ LET got == get_agent
       IN  /\ request' = Request("clear_chat")
           /\ IF got.raised
              THEN /\ UNCHANGED <<agents_cache, uploaded_files>>
                   /\ response' = Response("clear_chat", 200, FALSE)
              ELSE /\ agents_cache' = { [agent EXCEPT !.memory = memory_clear(@)] :
                                          agent \in got.cache }
                   /\ uploaded_files' = cleanup_user_files
                   /\ response' = Response("clear_chat", 200, TRUE)
    /\ UNCHANGED <<srv_pc, models_config, MODEL_NAME, srv_env, last_update>>
    /\ UNCHANGED <<toolVars, cvVars, xVars>>

\* POST /api/upload/cv; old is what cleanup_old_files finds older than an hour
upload_cv ==
    /\ srv_pc = "idle"
    /\ \A agent \in agents_cache : Len(agent.memory) < MaxMemory
    /\ \E file \in Uploads, old \in SUBSET uploaded_files, analysed \in BOOLEAN :
          /\ request' = [Request("upload_cv") EXCEPT !.filename = file.filename]
          /\ IF file.filename = "" \/ file.suffix \notin SupportedSuffixes
             THEN /\ UNCHANGED <<agents_cache, uploaded_files>>
                  /\ response' = Response("upload_cv", 400, FALSE)
             ELSE \E file_id \in FileIds \ (uploaded_files \ old) :
                     LET got == get_agent
                     IN  /\ uploaded_files' = (uploaded_files \ old) \cup {file_id}
                         /\ IF got.raised
                            THEN /\ agents_cache' = agents_cache
                                 /\ response' = Response("upload_cv", 500, FALSE)
                            ELSE /\ agents_cache' =
                                       IF analysed
                                       THEN { Invoked(agent, file.filename, "reply") :
                                                 agent \in got.cache }
                                       ELSE got.cache
                                 /\ response' = Response("upload_cv", 200, TRUE)
    /\ UNCHANGED <<srv_pc, models_config, MODEL_NAME, srv_env, last_update>>
    /\ UNCHANGED <<toolVars, cvVars, xVars>>

NextServer ==
    \/ update_model
    \/ chat_endpoint_memory
    \/ chat_endpoint_invoke
    \/ clear_chat
    \/ upload_cv

SpecServer == InitServer /\ [][NextServer]_vars

-----------------------------------------------------------------------------
(* Readings of the state used by the properties *)

Done == pc = "done"
\* the searcher has been constructed and one of its search methods entered
Constructed == pc \in {"searching", "done"} /\ path # "none"
OnBasicPath == Constructed /\ path = "basic"
OnFiltersPath == Constructed /\ path = "filters"
CallIndexes == 1..Len(calls)
SomeCallFailed == \E k \in CallIndexes : calls[k].failed

\* the batch is full of listing-domain items: as many items as requested, or more,
\* and every one of them a listing-domain item
FullBatch(c) == ~c.failed /\ c.got >= c.num /\ c.listing = c.got
AllBatchesFull == \A k \in CallIndexes : FullBatch(calls[k])

Ceil10(n) == (n + PageSize - 1) \div PageSize

RECURSIVE SumListing(_)
SumListing(cs) == IF cs = << >> THEN 0 ELSE Head(cs).listing + SumListing(Tail(cs))

CountLog(parser, rank) ==
    Cardinality({k \in 1..Len(parse_log) :
                    parse_log[k].parser = parser /\ parse_log[k].rank = rank})

-----------------------------------------------------------------------------
(* C1: on the search_linkedin_jobs path, when every batch the provider returned
   was full of listing-domain items, a finished search for n results made exactly
   ceil(n/10) provider calls and returned exactly n records; and no provider call
   was ever issued while n records were already held. *)
C1_FullBatchesCallCount ==
    /\ (OnBasicPath /\ Done /\ result.success /\ AllBatchesFull)
          => /\ Len(calls) = Ceil10(input.num_results)
             /\ Len(result.jobs) = input.num_results
    /\ OnBasicPath => \A k \in CallIndexes : calls[k].have < input.num_results

C1_Witness ==
    /\ OnBasicPath /\ Done /\ result.success /\ AllBatchesFull
    /\ input.num_results = 25
    /\ Len(calls) = 3
    /\ Len(result.jobs) = 25

(* C2: a provider call that fails is the last call of its search; the search is
   then over and has returned success=false with an empty jobs list and an error
   message, whatever had been accumulated before. *)
C2_FailureAbortsSearch ==
    \A k \in CallIndexes :
        calls[k].failed =>
            /\ k = Len(calls)
            /\ Done
            /\ result.returned
            /\ ~result.success
            /\ result.jobs = << >>
            /\ result.error # Empty

C2_Witness ==
    /\ Done /\ OnBasicPath
    /\ Len(calls) = 3 /\ calls[3].failed /\ ~calls[1].failed /\ ~calls[2].failed
    /\ Len(all_jobs) > 0
    /\ ~result.success /\ result.jobs = << >>

(* C3: under the model-based strategy, every item whose model extraction raised
   was parsed exactly once by the deterministic parser and its record is among the
   accumulated records; items after it in the batch were still processed, so the
   records held equal the listing-domain items returned; and a search none of
   whose provider calls failed ends in success. *)
C3_LlmFallbackKeepsItem ==
    (Constructed /\ parsing_method = "llm") =>
        /\ \A k \in 1..Len(parse_log) :
              (parse_log[k].parser = "llm" /\ parse_log[k].raised) =>
                  /\ CountLog("manual", parse_log[k].rank) = 1
                  /\ \E j \in 1..Len(all_jobs) :
                        all_jobs[j] = [rank |-> parse_log[k].rank, via |-> "manual"]
        /\ Len(all_jobs) = SumListing(calls)
        /\ (Done /\ ~SomeCallFailed) => result.success

C3_Witness ==
    /\ Done /\ parsing_method = "llm" /\ result.success
    /\ \E k \in 1..Len(parse_log) : parse_log[k].parser = "llm" /\ parse_log[k].raised
    /\ \E k \in 1..Len(parse_log) : parse_log[k].parser = "llm" /\ ~parse_log[k].raised
    /\ \E j \in 1..Len(result.jobs) : result.jobs[j].via = "manual"
    /\ \E j \in 1..Len(result.jobs) : result.jobs[j].via = "llm"

LastCall == calls[Len(calls)]

(* C4, as claimed: a successful search on the search_linkedin_jobs path stops only
   when num_results records are accumulated or a provider call returned zero
   items; and a zero-item batch is the last call of a search that then returns
   successfully. (Stated for a provider that returns no more items than asked.) *)
C4_StopsOnlyWhenFilledOrEmpty ==
    /\ (OnBasicPath /\ Done /\ result.success /\ provider.honours_num) =>
          \/ Len(all_jobs) >= input.num_results
          \/ (calls # << >> /\ LastCall.got = 0)
    /\ OnBasicPath => \A k \in CallIndexes :
          (~calls[k].failed /\ calls[k].got = 0) =>
              (k = Len(calls) /\ Done /\ result.success)

(* C4, amended: offsets grow by ten from 1; a successful search stops only when
   num_results records are accumulated, or a batch yielded no record (no item, or
   no listing-domain item), or the start offset has passed 91; a batch that
   yields no record is the last call, and the search then returns what was
   accumulated as a successful result. *)
C4_StopsWhenFilledEmptyOrBounded ==
    /\ OnBasicPath => \A k \in CallIndexes : calls[k].start = 1 + StartStep * (k - 1)
    /\ (OnBasicPath /\ Done /\ result.success) =>
          \/ Len(all_jobs) >= input.num_results
          \/ (calls # << >> /\ LastCall.listing = 0)
          \/ start_index > LastStartIndex
    /\ OnBasicPath => \A k \in CallIndexes :
          (~calls[k].failed /\ calls[k].listing = 0) =>
              /\ k = Len(calls)
              /\ Done
              /\ result.success
              /\ result.jobs = all_jobs

C4_Witness ==
    /\ OnBasicPath /\ Done /\ result.success
    /\ Len(calls) = 10
    /\ Len(all_jobs) < input.num_results
    /\ LastCall.listing > 0
    /\ start_index > LastStartIndex

(* C5: a successful result reports total_found equal to the length of its jobs
   list; on the search_linkedin_jobs path the list holds at most num_results
   records, exactly num_results when that many were accumulated, and it is the
   prefix of the accumulation, which is in provider rank order; on the
   search_with_filters path it holds at most num_results records when the
   provider returns no more items than requested. *)
C5_ResultIsTruncatedPrefix ==
    /\ \A j \in 1..(Len(all_jobs) - 1) : all_jobs[j].rank < all_jobs[j + 1].rank
    /\ (result.returned /\ result.success) =>
          /\ result.total_found = Len(result.jobs)
          /\ path = "basic" =>
                /\ Len(result.jobs) <= input.num_results
                /\ Len(all_jobs) >= input.num_results
                      => Len(result.jobs) = input.num_results
                /\ Len(result.jobs) <= Len(all_jobs)
                /\ \A j \in 1..Len(result.jobs) : result.jobs[j] = all_jobs[j]
          /\ (path = "filters" /\ provider.honours_num) =>
                Len(result.jobs) <= input.num_results

C5_Witness ==
    /\ OnBasicPath /\ Done /\ result.success
    /\ Len(all_jobs) > input.num_results
    /\ Len(result.jobs) = input.num_results
    /\ Len(calls) > 1

(* C6, as claimed: at every provider call the start offset plus the requested
   batch size does not exceed 100, and the batch size is at most 10. *)
C6_StartPlusBatchAtMost100 ==
    \A k \in CallIndexes :
        /\ calls[k].start + calls[k].num <= ProviderCeiling
        /\ calls[k].num <= PageSize

(* C6, amended: at every provider call the last rank requested, start + batch - 1,
   does not exceed 100 (start + batch may be 101), the start offset is at most 91,
   and the batch size is between 1 and 10. *)
C6_LastRankAtMost100 ==
    \A k \in CallIndexes :
        /\ calls[k].start + calls[k].num - 1 <= ProviderCeiling
        /\ calls[k].start <= LastStartIndex
        /\ calls[k].num >= 1
        /\ calls[k].num <= PageSize

C6_Witness ==
    \E k \in CallIndexes :
        /\ calls[k].start = LastStartIndex
        /\ calls[k].num = PageSize
        /\ calls[k].start + calls[k].num = ProviderCeiling + 1

(* C7: when model-based parsing was requested and llm_available is false, the
   strategy of the search is the deterministic one, the model is never invoked,
   every record comes from the deterministic parser, and a search none of whose
   provider calls failed succeeds and reports parsing_method "manual". *)
C7_DowngradeWhenUnavailable ==
    (Constructed /\ input.parsing_method = "llm" /\ ~llm_available) =>
        /\ parsing_method = "manual"
        /\ \A k \in 1..Len(parse_log) : parse_log[k].parser = "manual"
        /\ \A j \in 1..Len(all_jobs) : all_jobs[j].via = "manual"
        /\ (Done /\ ~SomeCallFailed) =>
              (result.success /\ result.parsing_method = "manual")

C7_Witness ==
    /\ Done /\ input.parsing_method = "llm" /\ ~llm_available
    /\ result.success /\ result.parsing_method = "manual"
    /\ Len(result.jobs) > 0

Clamp(n) ==
    IF n < NumResultsMin THEN NumResultsMin
    ELSE IF n > NumResultsMax THEN NumResultsMax ELSE n

(* C8, as claimed: num_results is clamped to [1,50]: a request is never rejected,
   the search runs with the clamped value, and it returns at most 50 records. *)
C8_ClampsNumResults ==
    /\ pc # "rejected"
    /\ Constructed => input.num_results = Clamp(args.num_results)
    /\ (result.returned /\ result.success) => Len(result.jobs) <= NumResultsMax

(* C8, amended: a num_results below 1 or above 50 is rejected by the input
   validation and no search runs (no provider call, no result); a value in
   [1,50] is used unchanged, and a search never returns more than 50 records. *)
C8_RejectsOutOfRange ==
    /\ pc # "idle" =>
          (pc = "rejected" <=>
              (args.num_results < NumResultsMin \/ args.num_results > NumResultsMax))
    /\ pc = "rejected" => (calls = << >> /\ ~result.returned)
    /\ Constructed => input.num_results = args.num_results
    /\ (result.returned /\ result.success) => Len(result.jobs) <= NumResultsMax

C8_Witness ==
    /\ pc = "rejected"
    /\ args.num_results = NumResultsMax + 1
    /\ calls = << >>

ExpectedDateRange(v) == IF v \in ValidRanges THEN v ELSE Str("m1")

(* C9: for every date_range a caller supplies, the empty string included, the
   validated date_range is the value itself when it is one of d1, w1, m1, m2, m3,
   m6, y1 and m1 otherwise; for the validator of either schema module. *)
C9_DateRangeDefaultsToMonth ==
    /\ (pc # "idle" /\ pc # "rejected") =>
          input.date_range = ExpectedDateRange(args.date_range)
    /\ (pc # "idle" /\ pc # "rejected") =>
          validate_date_range_backend(args.date_range) = ExpectedDateRange(args.date_range)

\* the number of times the token w occurs in the string q
TermCount(q, w) == Cardinality({k \in 1..Len(q) : q[k] = w})

\* q has no empty term: no blank at its end and no two blanks in a row
NoEmptyTerm(q) ==
    /\ q # Empty => q[Len(q)] # Blank
    /\ \A k \in 1..(Len(q) - 1) : ~(q[k] = Blank /\ q[k + 1] = Blank)

BareTermFilters(i) ==
    {i.location, i.job_type, i.experience_level, i.work_arrangement,
     i.job_function, i.industry}

(* C10: the query of every provider call is the site-restriction prefix, then the
   keyword, then a term for each non-empty optional filter, appended once; an
   unset filter (empty or blank) adds no term, not even an empty one. Stated for
   the filters the tool adds as bare terms: location, job type, experience level,
   work arrangement, job function and industry. *)
C10_EachFilterTermOnce ==
    \A k \in CallIndexes :
        LET q == calls[k].q
        IN  /\ Len(q) >= Len(SitePrefix \o input.keyword)
            /\ SubSeq(q, 1, Len(SitePrefix \o input.keyword)) = SitePrefix \o input.keyword
            /\ \A v \in BareTermFilters(input) :
                  Truthy(Strip(v)) => TermCount(q, Strip(v)[1]) = 1
            /\ NoEmptyTerm(q)

\* the string q holds s as a term of its own: s between blanks or the ends of q
HasBareTerm(q, s) ==
    \E k \in 1..(Len(q) - Len(s) + 1) :
        /\ SubSeq(q, k, k + Len(s) - 1) = s
        /\ (k = 1 \/ q[k - 1] = Blank)
        /\ (k + Len(s) - 1 = Len(q) \/ q[k + Len(s)] = Blank)

\* the string q holds s as a quoted term
HasQuotedTerm(q, s) == HasBareTerm(q, Quoted(s))

(* C11: whenever the company filter is non-empty, the query of every provider
   call holds the company as a term: quoted when exact_match_company is set, bare
   when it is not. *)
C11_CompanyIsQueryTerm ==
    \A k \in CallIndexes :
        Truthy(Strip(input.company)) =>
            IF input.exact_match_company
            THEN HasQuotedTerm(calls[k].q, input.company)
            ELSE HasBareTerm(calls[k].q, input.company)

\* the optional filters of the request and the dimension of each placeholder
FilterDimensions ==
    [location |-> "locations", job_type |-> "types", experience_level |-> "levels",
     company |-> "companies", industry |-> "industries",
     work_arrangement |-> "arrangements", job_function |-> "functions"]

\* the caller left the filter unset: empty, or nothing but blanks
Unset(v) == ~Truthy(Strip(v))

(* C12: in the successful result of a search, applied_filters is present and
   every optional filter the caller left unset is echoed under its key as
   "all <dimension>"; no unset filter is echoed as the empty string, and a
   date_range given as the empty string is echoed as an "all ..." placeholder
   too. *)
C12_UnsetFiltersShowPlaceholder ==
    (result.returned /\ result.success) =>
        /\ result.applied_filters.present
        /\ \A f \in DOMAIN FilterDimensions :
              Unset(args[f]) =>
                  result.applied_filters[f] = <<"all", Blank, FilterDimensions[f]>>
        /\ args.date_range = Empty =>
              /\ result.applied_filters.date_range # Empty
              /\ result.applied_filters.date_range[1] = "all"

\* the ranks of the items the k-th provider call returned
RanksOf(c) == c.start..(c.start + c.got - 1)

(* C13: an item whose link is not a listing-domain link yields no record under
   either strategy and raises no error: no parser (model or deterministic) is
   ever invoked for it, no record comes from it, every listing-domain item a
   call returned has its record, and a search none of whose provider calls
   failed ends in success. *)
C13_NonListingItemSkipped ==
    Constructed =>
        /\ \A k \in 1..Len(parse_log) : Listing(provider.pattern, parse_log[k].rank)
        /\ \A j \in 1..Len(all_jobs) : Listing(provider.pattern, all_jobs[j].rank)
        /\ \A k \in CallIndexes : \A r \in RanksOf(calls[k]) :
              Listing(provider.pattern, r) =>
                  \E j \in 1..Len(all_jobs) : all_jobs[j].rank = r
        /\ (Done /\ ~SomeCallFailed) => result.success

C13_Witness ==
    /\ Done /\ result.success
    /\ parsing_method = "llm"
    /\ \E k \in CallIndexes : calls[k].listing > 0 /\ calls[k].listing < calls[k].got
    /\ \E k \in CallIndexes : \E r \in RanksOf(calls[k]) :
          /\ ~Listing(provider.pattern, r)
          /\ \E j \in 1..Len(result.jobs) : result.jobs[j].rank = r + 1

-----------------------------------------------------------------------------
(* Readings of the state of the CV operations *)

CvDone == cv_pc = "done"
CvCredentialsMissing == ~(cv_env.api_key /\ cv_env.cse_id)
\* the CV was parsed successfully
CvParsed == cv_analysis # NoData /\ cv_analysis.success
\* the job search step of search_jobs_from_cv ran and did not succeed
JobSearchStageFailed ==
    /\ op = "search_jobs_from_cv"
    /\ CvDone
    /\ search_params # EmptyDict
    /\ ~cv_result.job_search_success

(* C14: when a search-provider credential is missing, the search tool of
   backend/ and the CV-based search (given a CV that parses) return a failure
   that names the missing credentials, and no network call, to the search
   provider or to the model provider, was attempted before it. *)
C14_MissingCredentialsFailBeforeNetwork ==
    (CvDone /\ CvCredentialsMissing
        /\ (op = "search_linkedin_jobs" \/ (op = "search_jobs_from_cv" /\ CvParsed))) =>
        /\ net = << >>
        /\ cv_result.returned
        /\ ~cv_result.success
        /\ cv_result.error = MissingCredentialsMessage

(* C15: every CV operation that finishes has returned a result structure, and
   when the job search step of search_jobs_from_cv failed, the result carries
   success=false, an error message and an empty jobs list; so does the result of
   parse_cv_content and of search_jobs_from_cv when the CV could not be parsed. *)
C15_FailedStageGivesFailureResult ==
    /\ CvDone => cv_result.returned
    /\ (CvDone /\ op # "search_linkedin_jobs" /\ ~CvParsed) =>
          (~cv_result.success /\ cv_result.error # "" /\ cv_result.jobs = << >>)
    /\ JobSearchStageFailed =>
          (~cv_result.success /\ cv_result.error # "" /\ cv_result.jobs = << >>)

-----------------------------------------------------------------------------
(* Readings of the state of the parsers *)

\* the parser has returned a record for the item
ItemParsed == op = "parse_search_results" /\ x_pc = "done"
\* the validator has returned a value for the field
FieldValidated == op = "JobSchema" /\ x_pc = "done"
ListField == x_item.field \in ArrayFields

(* C16: every record a parser returns for an item, under the deterministic
   strategy, under the model-based strategy and after a fallback, has a string in
   every scalar field, job_id included, never a native null, and has the
   sentinel string "None" in no list-typed field. *)
C16_NoNullInRecord ==
    ItemParsed =>
        \A f \in DOMAIN x_job :
            IF f \in ArrayFields THEN x_job[f] # PyStr(SentinelNone)
            ELSE x_job[f].t = "str"

(* C17: the validator of each of the two JobSchema definitions gives an empty
   list for a list-typed field that was given null, "" or "None", and the string
   "None" for a scalar field that was given null or ""; it gives "None" for no
   list-typed field, and neither null nor "" for a scalar field. *)
C17_ValidatorNormalisesAbsence ==
    FieldValidated =>
        /\ (ListField /\ x_item.value \in {PyNone, PyStr(Empty), PyStr(SentinelNone)}) =>
              x_job.value = PyList(<< >>)
        /\ (~ListField /\ x_item.value \in {PyNone, PyStr(Empty)}) =>
              x_job.value = PyStr(SentinelNone)
        /\ ListField => x_job.value # PyStr(SentinelNone)
        /\ ~ListField => x_job.value \notin {PyNone, PyStr(Empty)}

\* the record of the item was made by the field extractors
Extracted == ItemParsed /\ (x_item.method = "manual" \/ x_item.model = "raises")
ExtractedFields == {"company", "location", "job_type", "salary", "posted_date"}

\* no pattern of a field matches in the title and the snippet of the item
NoLabelMatches(labels) == LabelledGroups(x_item.snippet, labels) = << >>
NoWord(words) == Positions(x_item.snippet, words) = {}
NoCompanyPattern ==
    /\ \A k \in 1..4 : ~TitleMatch(clean_title(x_item.title), k).found
    /\ NoLabelMatches(<<"Company:", "Organization:", "Employer:", "Job at",
                        "Position at">>)
NoLocationPattern ==
    /\ NoLabelMatches(<<"Location:", "Based in:", "Office location:", "Remote -",
                        "Hybrid -">>)
    /\ CityStateAll(x_item.snippet) = << >>
    /\ NoWord({"remote", "Remote", "Remote -", "wfh", "work from home", "hybrid",
               "Hybrid", "Hybrid -"})
NoJobTypePattern ==
    /\ NoWord({"Full-time", "Full time", "Part-time", "Part time", "Contract",
               "Freelance", "Internship", "Temporary", "Permanent"})
    /\ NoLabelMatches(<<"Employment Type:", "Job Type:", "Position Type:">>)
NoSalaryPattern ==
    /\ NoWord({"$500", "80000 - 120000 USD"})
    /\ NoLabelMatches(<<"Salary:", "Compensation:", "Pay:">>)
NoDatePattern ==
    /\ NoWord({"3 days ago", "1 week ago", "1/5/2024", "2024-01-05"})
    /\ NoLabelMatches(<<"Posted:", "Published:">>)

\* where no pattern of a field matches, the field has its default
DefaultsWhereNoMatch ==
    /\ NoCompanyPattern => x_job.company = PyStr(Str("Unknown Company"))
    /\ NoLocationPattern => x_job.location = PyStr(Str("Location not specified"))
    /\ NoJobTypePattern => x_job.job_type = PyStr(Str("Not specified"))
    /\ NoSalaryPattern => x_job.salary = PyStr(Str("Not specified"))
    /\ NoDatePattern => x_job.posted_date = PyStr(Str("Date not specified"))

(* C18: no field extractor returns an empty string, and an extractor none of
   whose patterns matches in the title and the snippet returns the default of
   its field: "Unknown Company", "Location not specified", "Not specified" for
   the job type and for the salary, "Date not specified". *)
C18_ExtractorsNeverEmpty ==
    Extracted =>
        /\ \A f \in ExtractedFields : x_job[f].t = "str" /\ x_job[f].s # Empty
        /\ DefaultsWhereNoMatch

\* the second half of C18 alone
C18_DefaultsHold == Extracted => DefaultsWhereNoMatch
\* an item in which no pattern of any field matches
C18_NoMatchAtAll ==
    /\ Extracted
    /\ NoCompanyPattern /\ NoLocationPattern /\ NoJobTypePattern
    /\ NoSalaryPattern /\ NoDatePattern

\* the value of the leftmost labelled form among the labels, trimmed
LabelledValue(labels) == Strip(Head(LabelledGroups(x_item.snippet, labels)))
\* a label among the labels is followed by a value
HasLabelledValue(labels) == ~NoLabelMatches(labels) /\ LabelledValue(labels) # Empty
\* the values of the "Location:" forms that pass the plausibility filter
LocationValues ==
    LET ms == LabelledAll(x_item.snippet, "Location:", 1)
    IN  SelectSeq([k \in 1..Len(ms) |-> Strip(ms[k])], PlausibleLocation)

\* a labelled form and a positional form of the field in one snippet
JobTypeBothForms ==
    /\ HasLabelledValue(<<"Employment Type:", "Job Type:", "Position Type:">>)
    /\ ~NoWord({"Full-time", "Full time", "Part-time", "Part time", "Contract",
                "Freelance", "Internship", "Temporary", "Permanent"})
SalaryBothForms ==
    /\ HasLabelledValue(<<"Salary:", "Compensation:", "Pay:">>)
    /\ ~NoWord({"$500", "80000 - 120000 USD"})
LocationBothForms == LocationValues # << >> /\ CityStateAll(x_item.snippet) # << >>
DateBothForms ==
    /\ HasLabelledValue(<<"Posted:", "Published:">>)
    /\ ~NoWord({"3 days ago", "1 week ago", "1/5/2024", "2024-01-05"})

JobTypeLabelWins ==
    JobTypeBothForms =>
        Strip(x_job.job_type.s)
            = LabelledValue(<<"Employment Type:", "Job Type:", "Position Type:">>)
SalaryLabelWins ==
    SalaryBothForms =>
        Strip(x_job.salary.s) = LabelledValue(<<"Salary:", "Compensation:", "Pay:">>)
LocationLabelWins == LocationBothForms => x_job.location.s = Head(LocationValues)
DateLabelWins ==
    DateBothForms =>
        Strip(x_job.posted_date.s) = LabelledValue(<<"Posted:", "Published:">>)

(* C19: when a snippet holds both a labelled form of a field ("Job Type: X",
   "Salary: X", "Location: X", "Posted: X") and a positional form of the same
   field (a bare employment type, an amount with a currency sign or a range, a
   "City, State" shape, a relative or an absolute date), the extractor of the
   field returns the value of the labelled form. *)
C19_LabelledFormWins ==
    Extracted =>
        /\ JobTypeLabelWins
        /\ SalaryLabelWins
        /\ LocationLabelWins
        /\ DateLabelWins

\* the parts of C19 for the location and for the posting date
C19_LocationAndDate == Extracted => LocationLabelWins /\ DateLabelWins
C19_JobType == Extracted => JobTypeLabelWins
C19_Salary == Extracted => SalaryLabelWins
C19_LocationBoth == Extracted /\ LocationBothForms
C19_DateBoth == Extracted /\ DateBothForms

\* the snippet holds "Posted: <text>" exactly once
PostedOnce ==
    /\ Cardinality(Positions(x_item.snippet, {"Posted:"})) = 1
    /\ HasLabelledValue(<<"Posted:">>)
OtherDateForm == ~NoWord({"3 days ago", "1 week ago", "1/5/2024", "2024-01-05"})

(* C20: for a snippet that holds "Posted: <text>" exactly once,
   extract_posted_date returns <text> without the blanks around it, also when
   the snippet holds a relative time or an absolute date as well. *)
C20_PostedTextTrimmed ==
    (Extracted /\ PostedOnce) =>
        x_job.posted_date = PyStr(LabelledValue(<<"Posted:">>))

\* C20 up to the blanks around the text
C20_PostedTextUpToBlanks ==
    (Extracted /\ PostedOnce) =>
        Strip(x_job.posted_date.s) = LabelledValue(<<"Posted:">>)
C20_PostedWithOtherForm ==
    /\ Extracted /\ PostedOnce /\ OtherDateForm
    /\ x_job.posted_date.s \notin {<<"3">>, <<"2024-01-05">>}

\* the candidates of extract_company_name in the order it meets them: the groups
\* of the title patterns that match, then the groups of the snippet patterns
TitleCandidates ==
    LET companies(ms) == [k \in 1..Len(ms) |-> ms[k].company]
    IN  companies(SelectSeq([k \in 1..4 |-> TitleMatch(clean_title(x_item.title), k)],
                            LAMBDA m : m.found))
SnippetCandidates ==
    LET stripped(groups) == [k \in 1..Len(groups) |-> Strip(groups[k])]
    IN  stripped(LabelledGroups(x_item.snippet,
                                <<"Company:", "Organization:", "Employer:", "Job at",
                                  "Position at">>))
\* the candidates that are three characters or longer and hold no noise word
Accepted(candidates) == SelectSeq(candidates, PlausibleCompany)

(* C21: extract_company returns no candidate shorter than three characters and
   none that holds a noise word, from a title pattern or from a labelled snippet
   pattern alike: it returns the first candidate that passes both tests, and
   "Unknown Company" when none does. *)
C21_CompanyCandidatesFiltered ==
    Extracted =>
        /\ PlausibleCompany(x_job.company.s)
        /\ x_job.company.s =
              IF Accepted(TitleCandidates \o SnippetCandidates) = << >>
              THEN Str("Unknown Company")
              ELSE Head(Accepted(TitleCandidates \o SnippetCandidates))

\* C21 for the candidates of the title, and for the length of the result
C21_TitleCandidatesFiltered ==
    Extracted =>
        /\ LongerThanTwo(x_job.company.s)
        /\ Accepted(TitleCandidates) # << >> =>
              x_job.company.s = Head(Accepted(TitleCandidates))
        /\ (TitleCandidates # << >> /\ Accepted(TitleCandidates) = << >>
            /\ SnippetCandidates = << >>) =>
              x_job.company.s = Str("Unknown Company")
C21_TitleCandidateRejected ==
    /\ Extracted
    /\ TitleCandidates # << >>
    /\ Accepted(TitleCandidates) # TitleCandidates
    /\ Accepted(TitleCandidates) # << >>

\* the separators of a title that start a site-attribution suffix: a "-", a "|"
\* or an en dash with "LinkedIn" after it, blanks apart
SuffixStarts(t) ==
    {i \in 1..Len(t) :
        /\ t[i] \in {"-", "|", EnDash}
        /\ \E j \in (i + 1)..Len(t) :
              t[j] = "LinkedIn" /\ \A k \in (i + 1)..(j - 1) : IsSpace(t[k])}
\* the part of a title before its site-attribution suffix, the whole title when
\* it has none
BeforeSuffix(t) ==
    IF SuffixStarts(t) = {} THEN t ELSE SubSeq(t, 1, MinOf(SuffixStarts(t)) - 1)

(* C22 as stated: clean_title returns the part of the title before the first
   separator that "LinkedIn" follows, unchanged but for the blanks next to the
   separator; it returns a title with no such suffix as given; and applied to
   its own output it changes nothing. *)
C22_CleanTitleKeepsRest ==
    Extracted =>
        /\ x_job.title.s = IF SuffixStarts(x_item.title) = {} THEN x_item.title
                           ELSE RStrip(BeforeSuffix(x_item.title))
        /\ clean_title(x_job.title.s) = x_job.title.s

(* C22, amended: clean_title returns the part of the title before the first
   separator that "LinkedIn" follows, or the whole title when there is none, with
   the blanks at both ends removed; applied to its own output it changes
   nothing. *)
C22_CleanTitleStripsSuffix ==
    Extracted =>
        /\ x_job.title.s = Strip(BeforeSuffix(x_item.title))
        /\ clean_title(x_job.title.s) = x_job.title.s

\* a title with two suffixes, behind different separators, and a part before them
C22_Witness ==
    /\ Extracted
    /\ \E i, j \in SuffixStarts(x_item.title) : x_item.title[i] # x_item.title[j]
    /\ x_job.title.s = <<"Engineer">>

-----------------------------------------------------------------------------
(* Readings of the state of the CV-based search *)

\* the search parameters of the CV-based search have been derived
Planned ==
    /\ op = "search_jobs_from_cv"
    /\ cv_pc \in {"planned", "done"}
    /\ search_params # EmptyDict
ResumeRecord == cv_analysis.data
\* the derivation was the basic one: the model was not available or its call raised
BasicDerivationUsed == ~cv_env.groq_ok \/ cv_env.strategy_model = "raises"
\* the model's answer was not JSON
StrategyNotJson == cv_env.groq_ok /\ cv_env.strategy_model = "text"

StatedYears == Get(ResumeRecord, "total_years_experience", SentinelNone)
\* the years of experience are stated as a whole number
WholeYears == StatedYears # Empty /\ \A k \in 1..Len(StatedYears) : IsDigit(StatedYears[k])
Bucket(years) ==
    IF years <= 2 THEN Str("entry")
    ELSE IF years <= 5 THEN Str("mid")
    ELSE IF years <= 10 THEN Str("senior")
    ELSE Str("lead")

(* C23: the experience level of the derived search parameters is "entry" whenever
   include_entry_level is set, whatever the resume says; otherwise it is the
   bucket of the years of experience Y the resume states: entry for Y <= 2, mid
   for 2 < Y <= 5, senior for 5 < Y <= 10, lead for Y > 10. *)
C23_ExperienceLevelFromYears ==
    Planned =>
        /\ cv_args.include_entry_level => search_params.experience_level = Str("entry")
        /\ (~cv_args.include_entry_level /\ WholeYears) =>
              search_params.experience_level = Bucket(IntOfDigits(StatedYears))

\* C23 for the basic derivation and a whole number of years
C23_BasicBuckets ==
    (Planned /\ BasicDerivationUsed /\ WholeYears) =>
        search_params.experience_level =
            IF cv_args.include_entry_level THEN Str("entry")
            ELSE Bucket(IntOfDigits(StatedYears))
C23_BasicBoundary ==
    /\ Planned /\ BasicDerivationUsed /\ ~cv_args.include_entry_level
    /\ StatedYears = <<"1", "0">>
    /\ search_params.experience_level = Str("senior")

\* a value the resume record really has: neither missing, nor empty, nor "None"
Present(v) == Truthy(v) /\ v # SentinelNone
ResumeCity == Get(Get(ResumeRecord, "contact_info", EmptyDict), "city", Empty)
ResumeState == Get(Get(ResumeRecord, "contact_info", EmptyDict), "state", Empty)
\* the locations that can be built from the city and the state of the resume
ResumeLocations ==
    {Empty}
    \cup (IF Present(ResumeCity) THEN {ResumeCity} ELSE {})
    \cup (IF Present(ResumeCity) /\ Present(ResumeState)
          THEN {ResumeCity \o <<",", Blank>> \o ResumeState} ELSE {})
OverrideWins == Truthy(cv_args.location) => search_params.location = cv_args.location

(* C24: the location of the derived search filters is the caller's override
   when one is given; otherwise it is built from the city and the state the
   resume record really has, never from the "None" sentinel nor from a value
   the model supplied, and it is empty when the resume has no city. The filters
   hold no company the resume does not contain. *)
C24_LocationFromResumeOnly ==
    Planned =>
        /\ OverrideWins
        /\ ~Truthy(cv_args.location) => search_params.location \in ResumeLocations
        /\ "company" \notin DOMAIN search_params

\* the parts of C24 about the override and the company
C24_OverrideAndCompany ==
    Planned => OverrideWins /\ "company" \notin DOMAIN search_params
\* C24 for the basic derivation on a resume that has a state or no city
C24_BasicLocation ==
    (Planned /\ BasicDerivationUsed /\ ~Truthy(cv_args.location)
     /\ (Present(ResumeState) \/ ~Present(ResumeCity))) =>
        search_params.location \in ResumeLocations
C24_OverrideGiven ==
    Planned /\ Truthy(cv_args.location) /\ cv_args.location \notin ResumeLocations
C24_SentinelInLocation ==
    Planned /\ BasicDerivationUsed /\ search_params.location = <<"Austin", ",", Blank, "None">>

\* the parameters the basic derivation computes from the resume
BasicParams == ExtractBasicSearchParams(ResumeRecord, cv_args)
DerivedFields == {"keyword", "location", "work_arrangement", "experience_level"}

(* C25: when the model's search-strategy answer is not JSON, the search
   parameters of the CV-based search are the ones the basic derivation computes
   from the resume: its keyword, location, work arrangement and experience
   level. *)
C25_NonJsonGivesBasicParams ==
    (Planned /\ StrategyNotJson) =>
        \A k \in DerivedFields : search_params[k] = BasicParams[k]

\* the same when the model is not available or its call raises
C25_FailedCallGivesBasicParams ==
    (Planned /\ BasicDerivationUsed) =>
        \A k \in DerivedFields : search_params[k] = BasicParams[k]
C25_GenericDefaults ==
    /\ Planned /\ StrategyNotJson
    /\ search_params.keyword = DefaultKeyword
    /\ BasicParams.keyword # DefaultKeyword

-----------------------------------------------------------------------------
(* Readings of the state of the search tool, continued *)

\* the call returned items and none of them gave a record
NoRecordFromItems(c) == ~c.failed /\ c.got > 0 /\ c.listing = 0
\* the call gave no record: it returned no item, or none that gave a record
NoRecord(c) == ~c.failed /\ c.listing = 0

(* C27: on the search_linkedin_jobs path a batch that yields no record ends the
   pagination, also when the provider returned items and none of them is a
   listing item: no call follows it, and the search returns successfully with
   the records accumulated before it, fewer than num_results and before the
   offset bound is reached. *)
C27_EmptyBatchEndsPagination ==
    OnBasicPath => \A k \in CallIndexes :
        NoRecord(calls[k]) =>
            /\ k = Len(calls)
            /\ Done /\ result.returned /\ result.success
            /\ Len(all_jobs) = calls[k].have
            /\ result.jobs = all_jobs
            /\ result.total_found = Len(all_jobs)
            /\ Len(all_jobs) < input.num_results
            /\ start_index <= LastStartIndex

\* a third batch of one item that is no listing item, after two batches of records
C27_Witness ==
    /\ OnBasicPath /\ Done /\ result.success
    /\ Len(calls) = 3
    /\ NoRecordFromItems(LastCall)
    /\ result.jobs # << >>
    /\ Len(result.jobs) < input.num_results
    /\ provider.total > LastCall.start

\* the company filter holds more than blanks
CompanyGiven == Truthy(Strip(input.company))

(* C28: with a company filter the search tool takes the search_with_filters
   path; that path issues exactly one provider call, for min(num_results, 10)
   items from the first rank on, and never a second one; its result holds at
   most 10 records whatever num_results is. *)
C28_CompanyPathSingleCall ==
    /\ Constructed => (path = "filters" <=> CompanyGiven)
    /\ OnFiltersPath =>
          /\ Len(calls) <= 1
          /\ \A k \in CallIndexes :
                calls[k].num = Min(input.num_results, PageSize) /\ calls[k].start = 1
    /\ (OnFiltersPath /\ Done) =>
          /\ Len(calls) = 1
          /\ Len(result.jobs) <= PageSize
          /\ result.success => result.jobs = all_jobs

\* fifty records asked of a full index through the company path: ten returned
C28_Witness ==
    /\ OnFiltersPath /\ Done /\ result.success
    /\ input.num_results = NumResultsMax
    /\ provider.total = MaxIndexSize
    /\ Len(result.jobs) = PageSize

(* C29: the recency filter of the provider calls is the caller's date_range on
   the company path only; without a company filter every provider call carries
   the recency filter m1, whatever date_range the caller supplied, while
   applied_filters echoes the caller's date_range on both paths. *)
C29_RecencyFollowsCallerOnCompanyPathOnly ==
    /\ OnFiltersPath => \A k \in CallIndexes : calls[k].dateRestrict = input.date_range
    /\ OnBasicPath => \A k \in CallIndexes : calls[k].dateRestrict = Str("m1")
    /\ (Constructed /\ Done /\ result.success) =>
          result.applied_filters.date_range = input.date_range

\* a search without a company for the last week: m1 is sent, w1 is echoed
C29_Witness ==
    /\ OnBasicPath /\ Done /\ result.success
    /\ args.date_range = Str("w1")
    /\ calls # << >>
    /\ calls[1].dateRestrict = Str("m1")
    /\ result.applied_filters.date_range = Str("w1")

-----------------------------------------------------------------------------
(* Readings of the state of the HTTP server *)

UpdateAnswered == last_update.endpoint = "update_model"

\* the last model update was accepted
UpdateAccepted == UpdateAnswered /\ last_update.success

\* a chat request has run on the cached agent and was answered
ChatAnswered ==
    /\ srv_pc = "idle"
    /\ request.endpoint = "chat"
    /\ response.endpoint = "chat"
    /\ response.success

(* C26, as claimed: after a successful model update the next agent get_agent
   returns is built with the newly selected model, so every agent in the cache,
   and every chat request answered by it, runs on the selected model. *)
C26_AgentBuiltWithSelectedModel ==
    UpdateAccepted => \A agent \in agents_cache : agent.model = last_update.current_model

(* C26, the part that holds: a successful model update selects the requested
   model and leaves the agent cache and the file registry empty; a rejected
   update leaves the current model, the agent cache and the file registry as
   they were. *)
C26_UpdateEffects ==
    [][ request'.endpoint = "update_model" =>
           IF response'.success
           THEN /\ MODEL_NAME' = request'.model
                /\ agents_cache' = {}
                /\ uploaded_files' = {}
           ELSE /\ request'.model \notin AVAILABLE_MODELS
                /\ UNCHANGED <<MODEL_NAME, models_config, agents_cache, uploaded_files>>
      ]_vars

(* C26: whatever model was selected, an agent is built with the default of
   create_linkedin_job_agent. *)
C26_AgentBuiltWithDefault ==
    \A agent \in agents_cache : agent.model = DefaultAgentModel

\* a chat request was answered by an agent that does not run the selected model
C26_ChatOnOtherModel ==
    /\ UpdateAccepted
    /\ ChatAnswered
    /\ MODEL_NAME = FallbackModel
    /\ \E agent \in agents_cache : agent.model # MODEL_NAME

\* a rejected update found an agent and a file, and left them
C26_RejectedUpdate ==
    /\ UpdateAnswered
    /\ ~last_update.success
    /\ request.endpoint = "update_model"
    /\ agents_cache # {}
    /\ uploaded_files # {}

\* positions of the chat history that hold a user message, in order
UserPositions(chatHistory) ==
    SelectSeq([i \in 1..Len(chatHistory) |-> i],
              LAMBDA i : chatHistory[i].role = "user")

\* the assistant message right after position i, or the empty output
AnswerAt(chatHistory, i) ==
    IF i < Len(chatHistory) /\ chatHistory[i + 1].role = "assistant"
    THEN chatHistory[i + 1].content
    ELSE ""

\* one exchange per user message, in order
ExchangesOf(chatHistory) ==
    [k \in 1..Len(UserPositions(chatHistory)) |->
        Exchange(chatHistory[UserPositions(chatHistory)[k]].content,
                 AnswerAt(chatHistory, UserPositions(chatHistory)[k]))]

(* C30: when a chat request has rebuilt the memory, the memory of the agent
   holds one exchange per user message of the chat history of the request, in
   order, each with the assistant message right after it or with an empty
   output, and nothing else: nothing of an earlier request, and no assistant
   message that does not follow a user message; no assistant message is the
   output of two exchanges. Once the request is answered
   the memory holds these exchanges followed by the one of the request. *)
C30_MemoryRebuiltFromHistory ==
    /\ srv_pc = "chat_restored" =>
          /\ agents_cache # {}
          /\ \A agent \in agents_cache :
                /\ agent.memory = ExchangesOf(request.chatHistory)
                /\ Len(agent.memory) = Len(UserPositions(request.chatHistory))
                /\ \A k \in DOMAIN agent.memory, l \in DOMAIN agent.memory :
                      (k # l /\ agent.memory[k].output # "") =>
                         agent.memory[k].output # agent.memory[l].output
    /\ ChatAnswered =>
          \A agent \in agents_cache :
             agent.memory = Append(ExchangesOf(request.chatHistory),
                                   Exchange(request.message, "reply"))

\* after an answered chat request, a request whose history has two assistant
\* messages in a row after a user message, and a last user message without answer
C30_Witness ==
    /\ srv_pc = "chat_restored"
    /\ response.endpoint = "chat"
    /\ response.success
    /\ Len(request.chatHistory) = 4
    /\ request.chatHistory[1].role = "user"
    /\ request.chatHistory[2].role = "assistant"
    /\ request.chatHistory[3].role = "assistant"
    /\ request.chatHistory[4].role = "user"
    /\ \A agent \in agents_cache :
          agent.memory = <<Exchange("m1", "m2"), Exchange("m4", "")>>

====
